---- MODULE Spec2Model ----
(***************************************************************************)
(* Parashade v0.3 (src/parashade_win.cpp): normalizer, lexer, parser,      *)
(* typer/locals with constant folding, IR emitter with label patching,     *)
(* finalization to bytes, the stack VM and the NASM(PE) lowering.          *)
(*                                                                         *)
(* 64-bit values (uint64_t / int64_t) are kept at full width as four       *)
(* little-endian 16-bit limbs <<l0,l1,l2,l3>>, so that wrap-around and     *)
(* the signed/unsigned reading of the top bit are the code's own.          *)
(***************************************************************************)
EXTENDS Integers, Sequences, FiniteSets, TLC

VARIABLES
    pc,       \* position of the driver (main): which stage runs next
    mode,     \* command line flags of main: "run", "emit", "emit-nasm", "none"
    src,      \* text read from standard input, a sequence of lines of lexemes
    norm,     \* the text normalize_longform made of src
    toks,     \* Lexer::toks
    body,     \* Func::body of mod.mainFn, the statements gen_func walks
    si,       \* index of the next statement of gen_func's loop (0-based)
    T,        \* Typer: locals, nextIdx, warns
    E,        \* Emitter: code.seq, code.bytes, folds, and a pending exception
    vm,       \* VM: ip, stack, locals, arrays, and how run_all ended
    nasm,     \* struct NASM of emit_nasm_pe: the assembly text being written
    exe,      \* the machine running the assembled and linked text
    out,      \* what main wrote to standard output
    exit,     \* exit code of main (-1 while running)
    todo,     \* invocations of the driver still to be made on related inputs
    done,     \* what the earlier invocations ended with
    cap       \* gRange, the CapsuleArenas and CapsuleHandles made, the last call's outcome

vars == <<pc, mode, src, norm, toks, body, si, T, E, vm, nasm, exe, out, exit, todo, done, cap>>

----------------------------------------------------------------------------
(* uint64_t / int64_t arithmetic on four 16-bit limbs *)

Limb == 2^16
Half == 2^15

Limbs == 1..4

\* the uint64_t with the small value n (0 <= n < 2^31)
U64(n) == <<n % Limb, (n \div Limb) % Limb, 0, 0>>

\* the uint64_t with the 16-bit limbs from most to least significant
Hex4(h3, h2, h1, h0) == <<h0, h1, h2, h3>>

\* A+B on uint64_t, and ra+rb on int64_t (two's complement): wraps mod 2^64
AddCarry(a, b, i) ==
    LET RECURSIVE C(_)
        C(k) == IF k = 0 THEN 0 ELSE (a[k] + b[k] + C(k - 1)) \div Limb
    IN C(i)

Add64(a, b) == [i \in Limbs |-> (a[i] + b[i] + AddCarry(a, b, i - 1)) % Limb]

\* A<B on uint64_t
LtU(a, b) ==
    \E i \in Limbs : a[i] < b[i] /\ \A j \in Limbs : j > i => a[j] = b[j]

\* the sign of the value read as int64_t
IsNeg(a) == a[4] >= Half

\* ra<rb on int64_t
LtS(a, b) == IF IsNeg(a) # IsNeg(b) THEN IsNeg(a) ELSE LtU(a, b)

Zero64 == U64(0)
One64 == U64(1)

\* (size_t)x of a non-negative int64_t that fits the model's integers
FitsInt(a) == a[3] = 0 /\ a[4] = 0 /\ a[2] < Half
ToInt(a) == a[1] + Limb * a[2]

\* the low 32 bits of a value, as its two low limbs (mov ecx, eax)
Low32(a) == <<a[1], a[2]>>

----------------------------------------------------------------------------
(* Source text.  A text is a sequence of lines and a line a sequence of     *)
(* lexemes: one blank " ", one punctuation character, or a word, a maximal  *)
(* run of [A-Za-z0-9_].  Word boundaries (\b) are the lexeme boundaries of  *)
(* words.  Words are identifiers and keywords in any case, and number       *)
(* literals; no two words are adjacent.                                     *)

Blank == " "
Punct == {"(", ")", ",", ":", "=", "+"}
\* characters the lexer skips as unknown
Unknown == {"$", "-"}
IsWord(x) == x \notin Punct \cup Unknown \cup {Blank, ";"}

\* the part of a line before its first ';'
RECURSIVE CutComment(_)
CutComment(line) ==
    IF line = <<>> \/ Head(line) = ";" THEN <<>>
    ELSE <<Head(line)>> \o CutComment(Tail(line))

\* the blanks at the front of a lexeme sequence (what \s+ takes)
RECURSIVE Blanks(_)
Blanks(l) == IF l # <<>> /\ Head(l) = Blank THEN 1 + Blanks(Tail(l)) ELSE 0

Drop(l, k) == SubSeq(l, k + 1, Len(l))

\* length of the match of word1 \s+ word2 \s+ ... wordn \s+ at the front of l,
\* or 0 when it does not match there
RECURSIVE MatchPhrase(_, _)
MatchPhrase(l, words) ==
    IF words = <<>> THEN 0
    ELSE IF l = <<>> \/ Head(l) # Head(words) \/ Blanks(Tail(l)) = 0 THEN 0
    ELSE LET k == 1 + Blanks(Tail(l))
         IN IF Len(words) = 1 THEN k
            ELSE LET r == MatchPhrase(Drop(l, k), Tail(words))
                 IN IF r = 0 THEN 0 ELSE k + r

\* std::regex_replace(L, \bw1\s+...wn\s+, to): every match, left to right
RECURSIVE ReplacePhrase(_, _, _)
ReplacePhrase(l, words, to) ==
    IF l = <<>> THEN <<>>
    ELSE LET k == MatchPhrase(l, words)
         IN IF k > 0 THEN to \o ReplacePhrase(Drop(l, k), words, to)
            ELSE <<Head(l)>> \o ReplacePhrase(Tail(l), words, to)

\* std::regex_replace(L, \bword\b, to)
RECURSIVE ReplaceWord(_, _, _)
ReplaceWord(l, word, to) ==
    IF l = <<>> THEN <<>>
    ELSE (IF Head(l) = word THEN to ELSE <<Head(l)>>) \o ReplaceWord(Tail(l), word, to)

\* trim
RECURSIVE TrimLeft(_)
TrimLeft(l) == IF l # <<>> /\ Head(l) = Blank THEN TrimLeft(Tail(l)) ELSE l
RECURSIVE TrimRight(_)
TrimRight(l) == IF l # <<>> /\ l[Len(l)] = Blank THEN TrimRight(SubSeq(l, 1, Len(l) - 1)) ELSE l
trim(l) == TrimRight(TrimLeft(l))

\* the rewriting of one line by the table M of normalize_longform, in order
NormalizeLine(line) ==
    LET L0 == CutComment(line)
        L1 == ReplacePhrase(L0, <<"declare", "explicit", "integer", "named">>,
                            <<"let", Blank, "int", Blank>>)
        L2 == ReplacePhrase(L1, <<"declare", "implicit", "named">>, <<"let", Blank>>)
        L3 == ReplaceWord(L2, "equals", <<"=">>)
        L4 == ReplaceWord(L3, "end", <<>>)
        L5 == ReplaceWord(L4, "plus", <<"+">>)
        L6 == ReplaceWord(L5, "module", <<"module">>)
        L7 == ReplaceWord(L6, "scope", <<"scope">>)
        L8 == ReplaceWord(L7, "range", <<"range">>)
        L9 == ReplaceWord(L8, "return", <<"return">>)
    IN trim(L9)

normalize_longform(in) == [i \in 1..Len(in) |-> NormalizeLine(in[i])]

----------------------------------------------------------------------------
(* Lexer *)

\* lowerc on the words of the model that have upper-case letters
Lowered ==
    [w \in {"END", "End", "MODULE", "Scope", "M", "Demo", "Main", "X"} |->
        CASE w \in {"END", "End"} -> "end"
          [] w = "MODULE" -> "module"
          [] w = "Scope" -> "scope"
          [] w = "M" -> "m"
          [] w = "Demo" -> "demo"
          [] w = "Main" -> "main"
          [] OTHER -> "x"]

lowerc(w) == IF w \in DOMAIN Lowered THEN Lowered[w] ELSE w

\* the value `ss >> v` reads from the number literals of the model
NumberValue ==
    [w \in {"0", "1", "2", "3", "5", "7", "42", "0x2A", "0X2a", "0x10", "0x0_2A",
            "9223372036854775808", "0x8000000000000000", "0xFFFF_FFFF_FFFF_FFFF"} |->
        CASE w = "0" -> U64(0)
          [] w = "1" -> U64(1)
          [] w = "2" -> U64(2)
          [] w = "3" -> U64(3)
          [] w = "5" -> U64(5)
          [] w = "7" -> U64(7)
          [] w = "0x10" -> U64(16)
          [] w \in {"42", "0x2A", "0X2a", "0x0_2A"} -> U64(42)
          [] w \in {"9223372036854775808", "0x8000000000000000"} -> Hex4(Half, 0, 0, 0)
          [] OTHER -> Hex4(Limb - 1, Limb - 1, Limb - 1, Limb - 1)]

IsNumber(w) == w \in DOMAIN NumberValue

Keywords ==
    [w \in {"module", "scope", "range", "let", "int", "arr", "return", "end", "if", "else"} |->
        CASE w = "module" -> "KwModule"
          [] w = "scope" -> "KwScope"
          [] w = "range" -> "KwRange"
          [] w = "let" -> "KwLet"
          [] w = "int" -> "KwInt"
          [] w = "arr" -> "KwArr"
          [] w = "return" -> "KwReturn"
          [] w = "end" -> "KwEnd"
          [] w = "if" -> "KwIf"
          [] OTHER -> "KwElse"]

PunctTok(c) ==
    CASE c = "(" -> "LParen"
      [] c = ")" -> "RParen"
      [] c = "," -> "Comma"
      [] c = ":" -> "Colon"
      [] c = "=" -> "Equals"
      [] OTHER -> "Plus"

Token(t, str, ln) == [t |-> t, s |-> str, line |-> ln]

\* the tokens of one lexeme: none for a blank or an unknown character
LexOne(x, ln) ==
    CASE x = Blank \/ x \in Unknown -> <<>>
      [] x \in Punct -> <<Token(PunctTok(x), x, ln)>>
      [] IsNumber(x) -> <<Token("Number", x, ln)>>
      [] lowerc(x) \in DOMAIN Keywords -> <<Token(Keywords[lowerc(x)], x, ln)>>
      [] OTHER -> <<Token("Ident", lowerc(x), ln)>>

RECURSIVE LexLine(_, _)
LexLine(l, ln) == IF l = <<>> THEN <<>> ELSE LexOne(Head(l), ln) \o LexLine(Tail(l), ln)

\* Lexer::Lexer: the tokens of every line, then the End token
Lexer(text) ==
    LET RECURSIVE Lines(_)
        Lines(k) == IF k = 0 THEN <<>> ELSE Lines(k - 1) \o LexLine(CutComment(text[k]), k)
    IN Lines(Len(text)) \o <<Token("End", "", Len(text))>>

----------------------------------------------------------------------------
(* AST: struct Expr, struct Stmt *)

NoExprs == <<>>

num(v, ln) == [kind |-> "Num", line |-> ln, val |-> v, name |-> "", args |-> NoExprs]
var(n, ln) == [kind |-> "Var", line |-> ln, val |-> Zero64, name |-> n, args |-> NoExprs]
add(A, B, ln) == [kind |-> "Add", line |-> ln, val |-> Zero64, name |-> "", args |-> <<A, B>>]
call(n, as, ln) == [kind |-> "Call", line |-> ln, val |-> Zero64, name |-> n, args |-> as]

NoExpr == [kind |-> "None", line |-> 0, val |-> Zero64, name |-> "", args |-> NoExprs]

makeLet(n, et, e, ln) ==
    [kind |-> "Let", line |-> ln, etype |-> et, name |-> n, expr |-> e,
     cond |-> NoExpr, thenBody |-> <<>>, elseBody |-> <<>>]
makeRet(e, ln) ==
    [kind |-> "Ret", line |-> ln, etype |-> "T_Implicit", name |-> "", expr |-> e,
     cond |-> NoExpr, thenBody |-> <<>>, elseBody |-> <<>>]
makeIf(c, t, e, ln) ==
    [kind |-> "If", line |-> ln, etype |-> "T_Implicit", name |-> "", expr |-> NoExpr,
     cond |-> c, thenBody |-> t, elseBody |-> e]

----------------------------------------------------------------------------
(* Parser.  i is Lexer::i, the 0-based index of the next token; a parse     *)
(* function yields [ok, err, i, ...].  ord is the order in which the build  *)
(* evaluates the arguments of Expr::add(std::move(t), std::move(r), r->line)*)
(* which C++ leaves unsequenced: right to left reads r->line first, left to *)
(* right reads it through the moved-from (null) pointer.                    *)

ArgOrders == {"right_to_left", "left_to_right"}

peek(tk, i) == tk[i + 1]
\* a parse result: thrown or not, the message, Lexer::i, and the value e
Fail(msg, i) == [ok |-> FALSE, err |-> msg, i |-> i, e |-> <<>>]
Ok(i) == [ok |-> TRUE, err |-> <<>>, i |-> i, e |-> <<>>]
\* Lexer::expect: the index after the token, or a parse error
expect(tk, i, t, msg) ==
    IF peek(tk, i).t = t THEN Ok(i + 1)
    ELSE Fail(<<"Parse error: expected ", msg>>, i)

\* sequencing: the value of K on the result r of the step before it, or r
\* itself when that step threw
Then(r, K(_)) == CHOOSE v \in {IF x.ok THEN K(x) ELSE x : x \in {r}} : TRUE

RECURSIVE parseExpr(_, _, _)
RECURSIVE parsePrimary(_, _, _)

\* the arguments of a call after '(' : Expr (',' Expr)*, up to ')'
RECURSIVE parseArgs(_, _, _, _)
parseArgs(tk, i, ord, args) ==
    Then(parseExpr(tk, i, ord), LAMBDA a :
        IF peek(tk, a.i).t = "Comma"
        THEN parseArgs(tk, a.i + 1, ord, Append(args, a.e))
        ELSE [Ok(a.i) EXCEPT !.e = Append(args, a.e)])

parsePrimary(tk, i, ord) ==
    LET t == peek(tk, i)
        i1 == i + 1
    IN
    CASE t.t = "Number" -> [Ok(i1) EXCEPT !.e = num(NumberValue[t.s], t.line)]
      [] t.t = "Ident" ->
            IF peek(tk, i1).t = "LParen"
            THEN Then(IF peek(tk, i1 + 1).t # "RParen"
                      THEN parseArgs(tk, i1 + 1, ord, <<>>)
                      ELSE [Ok(i1 + 1) EXCEPT !.e = <<>>], LAMBDA as :
                 Then(expect(tk, as.i, "RParen", ")"), LAMBDA x :
                 [Ok(x.i) EXCEPT !.e = call(lowerc(t.s), as.e, t.line)]))
            ELSE [Ok(i1) EXCEPT !.e = var(lowerc(t.s), t.line)]
      [] t.t = "LParen" ->
            Then(parseExpr(tk, i1, ord), LAMBDA a :
            Then(expect(tk, a.i, "RParen", ")"), LAMBDA x :
            [Ok(x.i) EXCEPT !.e = a.e]))
      [] OTHER -> Fail(<<"Expected primary">>, i1)

\* while(L.accept(Tok::Plus)) t = Expr::add(std::move(t), std::move(r), r->line)
RECURSIVE parseSum(_, _, _)
parseSum(tk, ord, t) ==
    IF peek(tk, t.i).t # "Plus" THEN t
    ELSE Then(parsePrimary(tk, t.i + 1, ord), LAMBDA r :
         IF ord = "left_to_right" THEN Fail(<<"null dereference">>, r.i)
         ELSE parseSum(tk, ord, [Ok(r.i) EXCEPT !.e = add(t.e, r.e, r.e.line)]))

\* expr := primary ('+' primary)*
parseExpr(tk, i, ord) ==
    Then(parsePrimary(tk, i, ord), LAMBDA t : parseSum(tk, ord, t))

RECURSIVE parseStmt(_, _, _)

\* while(peek is none of stop) body.push_back(parseStmt())
RECURSIVE parseStmts(_, _, _, _, _)
parseStmts(tk, i, ord, stop, b) ==
    IF peek(tk, i).t \in stop THEN [Ok(i) EXCEPT !.e = b]
    ELSE Then(parseStmt(tk, i, ord), LAMBDA st :
         parseStmts(tk, st.i, ord, stop, Append(b, st.e)))

\* the type word of a let, and the index after it
LetTypeOf(tk, i) ==
    CASE peek(tk, i).t = "KwInt" -> [et |-> "T_Int", i |-> i + 1]
      [] peek(tk, i).t = "KwArr" -> [et |-> "T_Arr", i |-> i + 1]
      [] OTHER -> [et |-> "T_Implicit", i |-> i]

parseStmt(tk, i, ord) ==
    LET t == peek(tk, i)
    IN
    CASE t.t = "KwLet" ->
            LET ty == LetTypeOf(tk, i + 1)
                id == peek(tk, ty.i)
            IN IF id.t # "Ident" THEN Fail(<<"let: expected name">>, ty.i + 1)
               ELSE Then(expect(tk, ty.i + 1, "Equals", "="), LAMBDA x :
                    Then(parseExpr(tk, x.i, ord), LAMBDA e :
                    [Ok(e.i) EXCEPT !.e = makeLet(id.s, ty.et, e.e, t.line)]))
      [] t.t = "KwReturn" ->
            Then(parseExpr(tk, i + 1, ord), LAMBDA e :
            [Ok(e.i) EXCEPT !.e = makeRet(e.e, t.line)])
      [] t.t = "KwIf" ->
            Then(expect(tk, i + 1, "LParen", "("), LAMBDA x1 :
            Then(parseExpr(tk, x1.i, ord), LAMBDA c :
            Then(expect(tk, c.i, "RParen", ")"), LAMBDA x2 :
            Then(expect(tk, x2.i, "Colon", ":"), LAMBDA x3 :
            Then(parseStmts(tk, x3.i, ord, {"KwElse", "KwEnd", "End"}, <<>>), LAMBDA thenB :
            Then(IF peek(tk, thenB.i).t = "KwElse"
                 THEN Then(expect(tk, thenB.i + 1, "Colon", ":"), LAMBDA x4 :
                           parseStmts(tk, x4.i, ord, {"KwEnd", "End"}, <<>>))
                 ELSE [Ok(thenB.i) EXCEPT !.e = <<>>], LAMBDA elseB :
            Then(expect(tk, elseB.i, "KwEnd", "end"), LAMBDA x5 :
            [Ok(x5.i) EXCEPT !.e = makeIf(c.e, thenB.e, elseB.e, t.line)])))))))
      [] OTHER -> Fail(<<"Unknown statement">>, i)

\* Parser::parseScope
parseScope(tk, i, ord) ==
    Then(expect(tk, i, "KwScope", "scope"), LAMBDA x1 :
    LET id == peek(tk, x1.i)
    IN IF id.t # "Ident" \/ lowerc(id.s) # "main"
       THEN Fail(<<"only 'scope main' supported">>, x1.i + 1) ELSE
    Then(expect(tk, x1.i + 1, "KwRange", "range"), LAMBDA x2 :
    IF peek(tk, x2.i).t # "Ident" THEN Fail(<<"range: expected name">>, x2.i + 1) ELSE
    Then(expect(tk, x2.i + 1, "Colon", ":"), LAMBDA x3 :
    Then(parseStmts(tk, x3.i, ord, {"KwEnd", "End"}, <<>>), LAMBDA b :
    Then(expect(tk, b.i, "KwEnd", "end"), LAMBDA x4 :
    [Ok(x4.i) EXCEPT !.e = [name |-> "main", line |-> id.line, body |-> b.e]])))))

\* Parser::parseModule
parseModule(tk, ord) ==
    Then(expect(tk, 0, "KwModule", "module"), LAMBDA x1 :
    IF peek(tk, x1.i).t # "Ident" THEN Fail(<<"module: expected name">>, x1.i + 1) ELSE
    Then(expect(tk, x1.i + 1, "Colon", ":"), LAMBDA x2 :
    Then(parseScope(tk, x2.i, ord), LAMBDA sc :
    [Ok(sc.i) EXCEPT !.e = [name |-> lowerc(peek(tk, x1.i).s), mainFn |-> sc.e]])))

----------------------------------------------------------------------------
(* Typer: locals, warnings, constant folding *)

NoLocals == [n \in {} |-> 0]

TyperInit == [locals |-> NoLocals, nextIdx |-> 0, warns |-> <<>>]

\* declare_local with ++nextIdx in place of nextIdx++
declare_local_preinc(Ty, n, line, explicitType, k) ==
    IF n \in DOMAIN Ty.locals THEN Ty
    ELSE [locals |-> [m \in DOMAIN Ty.locals \cup {n} |->
                        IF m = n
                        THEN [name |-> n, ty |-> k, index |-> Ty.nextIdx + 1,
                              declLine |-> line, explicitDeclared |-> explicitType]
                        ELSE Ty.locals[m]],
          nextIdx |-> Ty.nextIdx + 1,
          warns |-> IF explicitType THEN Ty.warns
                    ELSE Append(Ty.warns,
                           [code |-> "W001",
                            msg |-> <<IF k = "Int" THEN "implicit integer"
                                                   ELSE "implicit array",
                                      " type inferred for ", n>>,
                            line |-> line])]

\* declare_local without the locals.count(n) test: a repeated Let shadows
declare_local_shadow(Ty, n, line, explicitType, k) ==
    [locals |-> [m \in DOMAIN Ty.locals \cup {n} |->
                    IF m = n
                    THEN [name |-> n, ty |-> k,
                          index |-> IF n \in DOMAIN Ty.locals THEN Ty.locals[n].index
                                    ELSE Ty.nextIdx,
                          declLine |-> line, explicitDeclared |-> explicitType]
                    ELSE Ty.locals[m]],
     nextIdx |-> IF n \in DOMAIN Ty.locals THEN Ty.nextIdx ELSE Ty.nextIdx + 1,
     warns |-> IF explicitType THEN Ty.warns
               ELSE Append(Ty.warns,
                      [code |-> "W001",
                       msg |-> <<IF k = "Int" THEN "implicit integer"
                                              ELSE "implicit array",
                                 " type inferred for ", n>>,
                       line |-> line])]

\* Typer::declare_local: a name not yet in the table gets the next index, and
\* a W001 warning when its type was inferred; a known name changes nothing
declare_local(Ty, n, line, explicitType, k) ==
    IF n \in DOMAIN Ty.locals THEN Ty
    ELSE [locals |-> [m \in DOMAIN Ty.locals \cup {n} |->
                        IF m = n
                        THEN [name |-> n, ty |-> k, index |-> Ty.nextIdx,
                              declLine |-> line, explicitDeclared |-> explicitType]
                        ELSE Ty.locals[m]],
          nextIdx |-> Ty.nextIdx + 1,
          warns |-> IF explicitType THEN Ty.warns
                    ELSE Append(Ty.warns,
                           [code |-> "W001",
                            msg |-> <<IF k = "Int" THEN "implicit integer"
                                                   ELSE "implicit array",
                                      " type inferred for ", n>>,
                            line |-> line])]

CmpNames == {"gt", "lt", "ge", "le", "eq", "ne"}

NotConst == [ok |-> FALSE, out |-> Zero64]
Const(v) == [ok |-> TRUE, out |-> v]

\* std::max<uint64_t>(A,B) and std::min<uint64_t>(A,B)
MaxU(A, B) == IF LtU(A, B) THEN B ELSE A
MinU(A, B) == IF LtU(B, A) THEN B ELSE A

\* the comparisons of is_const_expr, on uint64_t
CmpU(nm, A, B) ==
    CASE nm = "gt" -> LtU(B, A)
      [] nm = "lt" -> LtU(A, B)
      [] nm = "ge" -> ~LtU(A, B)
      [] nm = "le" -> ~LtU(B, A)
      [] nm = "eq" -> A = B
      [] OTHER     -> A # B

\* Typer::is_const_expr: [ok, out]
RECURSIVE is_const_expr(_)
is_const_expr(e) ==
    CASE e.kind = "Num" -> Const(e.val)
      [] e.kind = "Var" -> NotConst
      [] e.kind = "Add" ->
            LET A == is_const_expr(e.args[1])
                B == is_const_expr(e.args[2])
            IN IF A.ok /\ B.ok THEN Const(Add64(A.out, B.out)) ELSE NotConst
      [] e.kind = "Call" ->
            IF e.name \in {"max", "min"} /\ Len(e.args) = 2
            THEN LET A == is_const_expr(e.args[1])
                     B == is_const_expr(e.args[2])
                 IN IF A.ok /\ B.ok
                    THEN Const(IF e.name = "max" THEN MaxU(A.out, B.out)
                                                 ELSE MinU(A.out, B.out))
                    ELSE NotConst
            ELSE IF e.name \in {"ever_exact", "utterly_inline"} /\ Len(e.args) = 1
            THEN LET X == is_const_expr(e.args[1])
                 IN IF X.ok THEN Const(X.out) ELSE NotConst
            ELSE IF e.name \in CmpNames /\ Len(e.args) = 2
            THEN LET A == is_const_expr(e.args[1])
                     B == is_const_expr(e.args[2])
                 IN IF A.ok /\ B.ok
                    THEN Const(IF CmpU(e.name, A.out, B.out) THEN One64 ELSE Zero64)
                    ELSE NotConst
            ELSE NotConst
      [] OTHER -> NotConst

\* Typer::infer_type
infer_type(e) ==
    IF e.kind = "Call" /\ e.name \in {"arr_new", "arr_set", "arr_of"}
    THEN "Arr" ELSE "Int"

----------------------------------------------------------------------------
(* IR: enum Op, struct IRInstr, instr_size *)

PUSH_IMM64 == 1
ADD == 2
DUP == 6
STORE_LOCAL == 16
LOAD_LOCAL == 17
RET == 33
MAX_ == 48
MIN_ == 49
CMP_GT == 50
CMP_LT == 51
CMP_EQ == 52
CMP_NE == 53
CMP_GE == 54
CMP_LE == 55
ARR_NEW == 64
ARR_GET == 65
ARR_SET == 66
JZ_ABS == 112
JMP_ABS == 113

IRInstr(op) ==
    [op |-> op, hasImm |-> FALSE, imm |-> Zero64, hasIdx |-> FALSE, idx |-> 0,
     hasTarget |-> FALSE, target |-> -1]

instr_size(I) ==
    CASE I.op = PUSH_IMM64 -> 1 + 8
      [] I.op \in {STORE_LOCAL, LOAD_LOCAL} -> 1 + 2
      [] I.op \in {JZ_ABS, JMP_ABS} -> 1 + 4
      [] OTHER -> 1

----------------------------------------------------------------------------
(* Emitter.  An exception thrown inside gen_expr / gen_stmt is kept in err; *)
(* it unwinds to main's catch, so nothing is emitted once err is set.       *)

EmitterInit == [seq |-> <<>>, bytes |-> <<>>, folds |-> <<>>, err |-> "", nofold |-> FALSE]

Throw(Em, msg) == IF Em.err # "" THEN Em ELSE [Em EXCEPT !.err = msg]

\* Emitter::here
here(Em) == Len(Em.seq)

Push(Em, I) == IF Em.err # "" THEN Em ELSE [Em EXCEPT !.seq = Append(@, I)]

emit_raw(Em, op) == Push(Em, IRInstr(op))
emit_push(Em, v) == Push(Em, [IRInstr(PUSH_IMM64) EXCEPT !.hasImm = TRUE, !.imm = v])
\* (uint16_t) of the slot index
emit_local(Em, op, i) == Push(Em, [IRInstr(op) EXCEPT !.hasIdx = TRUE, !.idx = i % Limb])
emit_jmp(Em, op, targetIdx) ==
    Push(Em, [IRInstr(op) EXCEPT !.hasTarget = TRUE, !.target = targetIdx])

\* patch_target writing the index of the branch itself
patch_target_self(Em, at, targetIdx) ==
    IF Em.err # "" THEN Em
    ELSE [Em EXCEPT !.seq[at + 1].hasTarget = TRUE, !.seq[at + 1].target = at]

\* patch_target writing the index before targetIdx
patch_target_before(Em, at, targetIdx) ==
    IF Em.err # "" THEN Em
    ELSE [Em EXCEPT !.seq[at + 1].hasTarget = TRUE, !.seq[at + 1].target = targetIdx - 1]

\* Emitter::patch_target; at is a 0-based index into code.seq
patch_target(Em, at, targetIdx) ==
    IF Em.err # "" THEN Em
    ELSE [Em EXCEPT !.seq[at + 1].hasTarget = TRUE, !.seq[at + 1].target = targetIdx]

log_fold(Em, what, line) ==
    IF Em.err # "" THEN Em
    ELSE [Em EXCEPT !.folds = Append(@, [what |-> what, line |-> line])]

CmpOp(nm) ==
    CASE nm = "gt" -> CMP_GT
      [] nm = "lt" -> CMP_LT
      [] nm = "ge" -> CMP_GE
      [] nm = "le" -> CMP_LE
      [] nm = "eq" -> CMP_EQ
      [] OTHER     -> CMP_NE

\* the constant evaluation the emitter consults; with nofold the lowering
\* takes the branches of a failed evaluation (the unfolded IR)
FoldOf(Em, e) == IF Em.nofold THEN NotConst ELSE is_const_expr(e)

RECURSIVE gen_expr(_, _, _)

\* operands in order, then the combining opcode
gen_operands(Ty, Em, e, op) ==
    LET RECURSIVE Args(_, _)
        Args(Em1, i) == IF i > Len(e.args) THEN Em1
                        ELSE Args(gen_expr(Ty, Em1, e.args[i]), i + 1)
    IN emit_raw(Args(Em, 1), op)

\* gen_expr, nm=="max"||nm=="min"
gen_maxmin(Ty, Em, e) ==
    LET CV == FoldOf(Em, e)
    IN IF CV.ok
       THEN emit_push(log_fold(Em, <<"fold:", e.name>>, e.line), CV.out)
       ELSE IF Len(e.args) # 2 THEN Throw(Em, "max/min need 2 args")
       ELSE gen_operands(Ty, Em, e, IF e.name = "max" THEN MAX_ ELSE MIN_)

\* ever_exact whose else branch was left out: nothing is emitted for an
\* argument that is not constant
gen_ever_exact_noelse(Ty, Em, e) ==
    IF Len(e.args) # 1 THEN Throw(Em, "ever_exact needs 1 arg")
    ELSE LET CV == FoldOf(Em, e.args[1])
         IN IF CV.ok
            THEN emit_push(log_fold(Em, <<"fold:", "ever_exact">>, e.line), CV.out)
            ELSE Em

\* gen_expr, nm=="ever_exact"
gen_ever_exact(Ty, Em, e) ==
    IF Len(e.args) # 1 THEN Throw(Em, "ever_exact needs 1 arg")
    ELSE LET CV == FoldOf(Em, e.args[1])
         IN IF CV.ok
            THEN emit_push(log_fold(Em, <<"fold:", "ever_exact">>, e.line), CV.out)
            ELSE gen_expr(Ty, Em, e.args[1])

\* utterly_inline that only refuses a call without arguments
gen_utterly_inline_atleast(Ty, Em, e) ==
    IF Len(e.args) < 1 THEN Throw(Em, "utterly_inline needs 1 arg")
    ELSE gen_expr(Ty, log_fold(Em, <<"hint:", "inline">>, e.line), e.args[1])

\* gen_expr, nm=="utterly_inline"
gen_utterly_inline(Ty, Em, e) ==
    IF Len(e.args) # 1 THEN Throw(Em, "utterly_inline needs 1 arg")
    ELSE gen_expr(Ty, log_fold(Em, <<"hint:", "inline">>, e.line), e.args[1])

\* gen_expr, nm=="gt"||...||nm=="ne"
gen_cmp(Ty, Em, e) ==
    IF Len(e.args) # 2 THEN Throw(Em, "cmp needs 2 args")
    ELSE LET CV == FoldOf(Em, e)
         IN IF CV.ok THEN emit_push(Em, CV.out)
            ELSE gen_operands(Ty, Em, e, CmpOp(e.name))

\* gen_expr, nm=="arr_of"
gen_arr_of(Ty, Em, e) ==
    LET len == Len(e.args)
        RECURSIVE Elems(_, _)
        Elems(Em1, i) ==
            IF i >= len THEN Em1
            ELSE Elems(emit_raw(gen_expr(Ty, emit_push(emit_raw(Em1, DUP), U64(i)),
                                         e.args[i + 1]), ARR_SET), i + 1)
    IN Elems(emit_raw(emit_push(Em, U64(len)), ARR_NEW), 0)

\* Emitter::gen_expr
gen_expr(Ty, Em, e) ==
    IF Em.err # "" THEN Em
    ELSE
    CASE e.kind = "Num" -> emit_push(Em, e.val)
      [] e.kind = "Var" ->
            IF e.name \notin DOMAIN Ty.locals
            THEN Throw(Em, "use of undeclared")
            ELSE emit_local(Em, LOAD_LOCAL, Ty.locals[e.name].index)
      [] e.kind = "Add" -> gen_operands(Ty, Em, e, ADD)
      [] e.kind = "Call" ->
            LET nm == e.name
                n == Len(e.args)
            IN
            IF nm \in {"max", "min"} THEN gen_maxmin(Ty, Em, e)
            ELSE IF nm = "ever_exact" THEN gen_ever_exact(Ty, Em, e)
            ELSE IF nm = "utterly_inline" THEN gen_utterly_inline(Ty, Em, e)
            ELSE IF nm \in CmpNames THEN gen_cmp(Ty, Em, e)
            ELSE IF nm = "arr_new" THEN
                IF n # 1 THEN Throw(Em, "arr_new(n) needs 1 arg")
                ELSE gen_operands(Ty, Em, e, ARR_NEW)
            ELSE IF nm = "arr_get" THEN
                IF n # 2 THEN Throw(Em, "arr_get(a,i) needs 2 args")
                ELSE gen_operands(Ty, Em, e, ARR_GET)
            ELSE IF nm = "arr_set" THEN
                IF n # 3 THEN Throw(Em, "arr_set(a,i,v) needs 3 args")
                ELSE gen_operands(Ty, Em, e, ARR_SET)
            ELSE IF nm = "arr_of" THEN gen_arr_of(Ty, Em, e)
            ELSE Throw(Em, "unknown call")
      [] OTHER -> Em

\* the Type::K of a Let (gen_stmt, first line of case Let)
LetType(s) ==
    CASE s.etype = "T_Int" -> "Int"
      [] s.etype = "T_Arr" -> "Arr"
      [] OTHER -> infer_type(s.expr)

\* Emitter::gen_stmt: the typer and the emitter after lowering statement s
RECURSIVE gen_stmt(_, _)
gen_stmt(TE, s) ==
    LET RECURSIVE Stmts(_, _, _)
        Stmts(TE1, b, i) == IF i > Len(b) THEN TE1 ELSE Stmts(gen_stmt(TE1, b[i]), b, i + 1)
    IN
    IF TE.E.err # "" THEN TE
    ELSE
    CASE s.kind = "Let" ->
            LET T1 == declare_local(TE.T, s.name, s.line, s.etype # "T_Implicit", LetType(s))
                E1 == gen_expr(T1, TE.E, s.expr)
            IN [T |-> T1, E |-> emit_local(E1, STORE_LOCAL, T1.locals[s.name].index)]
      [] s.kind = "Ret" ->
            [T |-> TE.T, E |-> emit_raw(gen_expr(TE.T, TE.E, s.expr), RET)]
      [] s.kind = "If" ->
            LET E1 == gen_expr(TE.T, TE.E, s.cond)
                jz == here(E1)
                E2 == emit_jmp(E1, JZ_ABS, -1)
                TE3 == Stmts([T |-> TE.T, E |-> E2], s.thenBody, 1)
                jmpEnd == here(TE3.E)
                E4 == emit_jmp(TE3.E, JMP_ABS, -1)
                elseAt == here(E4)
                E5 == patch_target(E4, jz, elseAt)
                TE6 == Stmts([T |-> TE3.T, E |-> E5], s.elseBody, 1)
                endAt == here(TE6.E)
            IN [T |-> TE6.T, E |-> patch_target(TE6.E, jmpEnd, endAt)]
      [] OTHER -> TE

----------------------------------------------------------------------------
(* Emitter::finalize_bytes *)

\* off[i]: byte offset of instruction index i (0-based), off[size] the length
off(seq, i) ==
    LET RECURSIVE O(_)
        O(k) == IF k = 0 THEN 0 ELSE O(k - 1) + instr_size(seq[k])
    IN O(i)

out_u8(v) == <<v % 256>>
out_u16(v) == <<v % 256, (v \div 256) % 256>>
out_u32(v) == <<v % 256, (v \div 256) % 256, (v \div 65536) % 256, (v \div 16777216) % 256>>
out_u64(v) == out_u16(v[1]) \o out_u16(v[2]) \o out_u16(v[3]) \o out_u16(v[4])

\* the bytes of one instruction
InstrBytes(seq, I) ==
    out_u8(I.op) \o
    CASE I.op = PUSH_IMM64 -> out_u64(I.imm)
      [] I.op \in {STORE_LOCAL, LOAD_LOCAL} -> out_u16(I.idx)
      [] I.op \in {JZ_ABS, JMP_ABS} -> out_u32(IF I.hasTarget THEN off(seq, I.target) ELSE 0)
      [] OTHER -> <<>>

finalize_bytes(seq) ==
    LET RECURSIVE B(_)
        B(k) == IF k = 0 THEN <<>> ELSE B(k - 1) \o InstrBytes(seq, seq[k])
    IN B(Len(seq))

\* the bytes left in place
bytes_keep(b) == b

\* code.bytes.clear()
bytes_clear(b) == <<>>

\* Emitter::finalize_bytes on the emitter Em: the bytes are cleared, then
\* every instruction is written behind them
finalize(Em) == [Em EXCEPT !.bytes = bytes_clear(@) \o finalize_bytes(Em.seq)]

----------------------------------------------------------------------------
(* VM.  ip is the 0-based offset into the bytes b; b[ip] is b[ip + 1] here. *)
(* status: "idle" before construction, "running", "returned" (RET),         *)
(* "error" (a std::exception thrown by run_all), "undefined" (the step      *)
(* would read or write outside the stack, the locals or the bytes).         *)

VMIdle ==
    [ip |-> 0, stack |-> <<>>, locals |-> <<>>, arrays |-> <<>>,
     status |-> "idle", ret |-> Zero64, nret |-> 0, what |-> ""]

\* VM::VM(bytes, localCount): locals(localCount, 0)
VMNew(localCount) ==
    [VMIdle EXCEPT !.locals = [i \in 1..localCount |-> Zero64], !.status = "running"]

get_u16(b, ip) == b[ip + 1] + 256 * b[ip + 2]
get_u32(b, ip) == b[ip + 1] + 256 * b[ip + 2] + 65536 * b[ip + 3] + 16777216 * b[ip + 4]
get_u64(b, ip) ==
    <<get_u16(b, ip), get_u16(b, ip + 2), get_u16(b, ip + 4), get_u16(b, ip + 6)>>

Top(st) == st[Len(st)]
Pop(st, k) == SubSeq(st, 1, Len(st) - k)
\* the operand k places below the top (0 is the top)
Under(st, k) == st[Len(st) - k]

Bool64(c) == IF c THEN One64 ELSE Zero64

\* the value a two-operand opcode pushes for ra (below) and rb (top), int64_t
BinOp(op, ra, rb) ==
    CASE op = ADD    -> Add64(ra, rb)
      [] op = MAX_   -> IF LtS(rb, ra) THEN ra ELSE rb
      [] op = MIN_   -> IF LtS(ra, rb) THEN ra ELSE rb
      [] op = CMP_GT -> Bool64(LtS(rb, ra))
      [] op = CMP_LT -> Bool64(LtS(ra, rb))
      [] op = CMP_EQ -> Bool64(ra = rb)
      [] op = CMP_NE -> Bool64(ra # rb)
      [] op = CMP_GE -> Bool64(~LtS(ra, rb))
      [] OTHER       -> Bool64(~LtS(rb, ra))

BinOps == {ADD, MAX_, MIN_, CMP_GT, CMP_LT, CMP_EQ, CMP_NE, CMP_GE, CMP_LE}

\* the handle test on the low 32 bits of id only
ValidHandle_low32(arrays, id) == ToInt(<<id[1], id[2] % Half>>) \in 1..Len(arrays)

\* id>0 && (size_t)id<=arrays.size()
ValidHandle(arrays, id) == ~IsNeg(id) /\ id # Zero64 /\ FitsInt(id) /\ ToInt(id) <= Len(arrays)
\* idx>=0 && (size_t)idx<a.size()
ValidIndex(a, idx) == ~IsNeg(idx) /\ FitsInt(idx) /\ ToInt(idx) < Len(a)

\* the length with one more element
ArrLen_plus1(len) == IF IsNeg(len) THEN Zero64 ELSE Add64(len, One64)

\* if(len<0) len=0
ArrLen(len) == IF IsNeg(len) THEN Zero64 ELSE len

\* operand bytes the opcode reads, and values it takes from the stack
OperandBytes(op) ==
    CASE op = PUSH_IMM64 -> 8
      [] op \in {LOAD_LOCAL, STORE_LOCAL} -> 2
      [] op \in {JZ_ABS, JMP_ABS} -> 4
      [] OTHER -> 0

Needs(op) ==
    CASE op \in BinOps \cup {ARR_GET} -> 2
      [] op = ARR_SET -> 3
      [] op \in {STORE_LOCAL, DUP, ARR_NEW, JZ_ABS, RET} -> 1
      [] OTHER -> 0

KnownOps == BinOps \cup {PUSH_IMM64, LOAD_LOCAL, STORE_LOCAL, DUP, ARR_NEW, ARR_GET,
                         ARR_SET, JZ_ABS, JMP_ABS, RET}

Stop(v, st, why) == [v EXCEPT !.status = st, !.what = why]

\* one iteration of the for(;;) of VM::run_all
run_step(b, v) ==
    IF v.ip >= Len(b) THEN Stop(v, "error", "VM OOB")
    ELSE
    LET op == b[v.ip + 1]
        ip == v.ip + 1
        st == v.stack
    IN
    IF op \notin KnownOps THEN Stop([v EXCEPT !.ip = ip], "error", "VM bad opcode")
    ELSE IF ip + OperandBytes(op) > Len(b) THEN Stop(v, "undefined", "operand read past the bytes")
    ELSE IF Len(st) < Needs(op) THEN Stop(v, "undefined", "back() or pop_back() of an empty stack")
    ELSE
    CASE op = PUSH_IMM64 ->
            [v EXCEPT !.ip = ip + 8, !.stack = Append(st, get_u64(b, ip))]
      [] op = LOAD_LOCAL ->
            LET idx == get_u16(b, ip)
            IN IF idx >= Len(v.locals) THEN Stop(v, "undefined", "locals[idx] out of range")
               ELSE [v EXCEPT !.ip = ip + 2, !.stack = Append(st, v.locals[idx + 1])]
      [] op = STORE_LOCAL ->
            LET idx == get_u16(b, ip)
            IN IF idx >= Len(v.locals) THEN Stop(v, "undefined", "locals[idx] out of range")
               ELSE [v EXCEPT !.ip = ip + 2, !.stack = Pop(st, 1),
                              !.locals[idx + 1] = Top(st)]
      [] op = DUP -> [v EXCEPT !.ip = ip, !.stack = Append(st, Top(st))]
      [] op \in BinOps ->
            [v EXCEPT !.ip = ip,
                      !.stack = Append(Pop(st, 2), BinOp(op, Under(st, 1), Top(st)))]
      [] op = ARR_NEW ->
            LET len == ArrLen(Top(st))
            IN IF ~FitsInt(len) THEN Stop([v EXCEPT !.ip = ip, !.stack = Pop(st, 1)],
                                          "error", "std::bad_alloc")
               ELSE [v EXCEPT !.ip = ip,
                              !.arrays = Append(@, [i \in 1..ToInt(len) |-> Zero64]),
                              !.stack = Append(Pop(st, 1), U64(Len(v.arrays) + 1))]
      [] op = ARR_GET ->
            LET idx == Top(st)
                id == Under(st, 1)
                val == IF ValidHandle(v.arrays, id) /\ ValidIndex(v.arrays[ToInt(id)], idx)
                       THEN v.arrays[ToInt(id)][ToInt(idx) + 1] ELSE Zero64
            IN [v EXCEPT !.ip = ip, !.stack = Append(Pop(st, 2), val)]
      [] op = ARR_SET ->
            LET val == Top(st)
                idx == Under(st, 1)
                id == Under(st, 2)
            IN [v EXCEPT !.ip = ip,
                         !.arrays = IF ValidHandle(v.arrays, id)
                                       /\ ValidIndex(v.arrays[ToInt(id)], idx)
                                    THEN [@ EXCEPT ![ToInt(id)][ToInt(idx) + 1] = val]
                                    ELSE @,
                         !.stack = Append(Pop(st, 3), id)]
      [] op = JZ_ABS ->
            [v EXCEPT !.ip = IF Top(st) = Zero64 THEN get_u32(b, ip) ELSE ip + 4,
                      !.stack = Pop(st, 1)]
      [] op = JMP_ABS -> [v EXCEPT !.ip = get_u32(b, ip)]
      [] OTHER \* RET
            -> [v EXCEPT !.ip = ip, !.status = "returned", !.ret = Top(st), !.nret = @ + 1]

----------------------------------------------------------------------------
(* NASM emitter.  asmtext is a sequence of items: a label, or the lowering  *)
(* of one IR instruction (the lines one op_* call writes), or the prologue  *)
(* or the epilogue.                                                         *)

AsmItem(k, op) == [k |-> k, op |-> op, imm |-> Zero64, idx |-> 0, lab |-> -1]

\* struct NASM, with i the index of emit_nasm_pe's second loop
NasmIdle ==
    [status |-> "idle", asmtext |-> <<>>, labelCounter |-> 0,
     labelForInstr |-> <<>>, i |-> 0, err |-> ""]

\* labelForInstr is kept as a sequence of <<IR index, label>> pairs
Labelled(n) == {n.labelForInstr[k][1] : k \in 1..Len(n.labelForInstr)}
LabelOf(n, instrIndex) ==
    LET k == CHOOSE k \in 1..Len(n.labelForInstr) : n.labelForInstr[k][1] = instrIndex
    IN n.labelForInstr[k][2]

\* NASM::ensureLabel: the label of instrIndex, made with mkLabel if there is none
ensureLabel(n, instrIndex) ==
    IF instrIndex \in Labelled(n) THEN n
    ELSE [n EXCEPT !.labelForInstr = Append(@, <<instrIndex, n.labelCounter>>),
                   !.labelCounter = @ + 1]

placeLabel(n, L) == [n EXCEPT !.asmtext = Append(@, [AsmItem("label", 0) EXCEPT !.lab = L])]

\* for(auto& I: code.seq) if(I.op==ARR_NEW||I.op==ARR_GET||I.op==ARR_SET) needsHeap=true
needsHeap(seq) == \E k \in 1..Len(seq) : seq[k].op \in {ARR_NEW, ARR_GET, ARR_SET}

\* NASM::prologue: idx is the bytes reserved below rbp, imm whether the heap
\* handle is fetched
prologue(n, locals, heap) ==
    [n EXCEPT !.asmtext = Append(@, [AsmItem("prologue", 0) EXCEPT
                                        !.idx = ((locals * 8 + 32 + 15) \div 16) * 16,
                                        !.imm = Bool64(heap)])]

epilogue(n) == [n EXCEPT !.asmtext = Append(@, AsmItem("epilogue", 0))]

\* the first loop of emit_nasm_pe: a label for every branch target
RECURSIVE MarkLabels(_, _, _)
MarkLabels(n, seq, k) ==
    IF k > Len(seq) THEN n
    ELSE MarkLabels(IF seq[k].op \in {JZ_ABS, JMP_ABS} /\ seq[k].hasTarget
                    THEN ensureLabel(n, seq[k].target) ELSE n, seq, k + 1)

\* the op_* call of the switch for instruction I; op_arr_get takes two labels
\* of its own with mkLabel, op_arr_set one
Lower(n, I) ==
    CASE I.op = PUSH_IMM64 ->
            [n EXCEPT !.asmtext = Append(@, [AsmItem("op", I.op) EXCEPT !.imm = I.imm])]
      [] I.op \in {LOAD_LOCAL, STORE_LOCAL} ->
            [n EXCEPT !.asmtext = Append(@, [AsmItem("op", I.op) EXCEPT !.idx = I.idx])]
      [] I.op \in BinOps \cup {DUP, ARR_NEW, RET} ->
            [n EXCEPT !.asmtext = Append(@, AsmItem("op", I.op))]
      [] I.op = ARR_GET ->
            [n EXCEPT !.asmtext = Append(@, [AsmItem("op", I.op) EXCEPT !.lab = n.labelCounter]),
                      !.labelCounter = @ + 2]
      [] I.op = ARR_SET ->
            [n EXCEPT !.asmtext = Append(@, [AsmItem("op", I.op) EXCEPT !.lab = n.labelCounter]),
                      !.labelCounter = @ + 1]
      [] I.op \in {JZ_ABS, JMP_ABS} ->
            [ensureLabel(n, I.target) EXCEPT
                !.asmtext = Append(@, [AsmItem("op", I.op) EXCEPT
                                          !.lab = LabelOf(ensureLabel(n, I.target), I.target)])]
      [] OTHER -> [n EXCEPT !.err = "NASM emitter: bad opcode"]

\* one iteration of the second loop of emit_nasm_pe; RET leaves the loop
\* (goto end_emit), which is followed by the epilogue
emit_instr(n, seq) ==
    LET I == seq[n.i + 1]
        n1 == IF n.i \in Labelled(n) THEN placeLabel(n, LabelOf(n, n.i)) ELSE n
        n2 == Lower(n1, I)
    IN IF n2.err # "" THEN [n2 EXCEPT !.status = "error"]
       ELSE IF I.op = RET THEN [n2 EXCEPT !.status = "end_emit"]
       ELSE [n2 EXCEPT !.i = @ + 1]

----------------------------------------------------------------------------
(* The assembled program.  build.bat assembles asmtext with nasm, which     *)
(* rejects a reference to a label that is nowhere defined.  The machine     *)
(* runs one item at a time: rax, the virtual stack (push/pop on rsp), the   *)
(* locals at [rbp-(k+1)*8], and the heap blocks made by HeapAlloc.          *)

Defined(text) == {text[k].lab : k \in {j \in 1..Len(text) : text[j].k = "label"}}
Referenced(text) ==
    {text[k].lab : k \in {j \in 1..Len(text) : text[j].k = "op" /\ text[j].op \in {JZ_ABS, JMP_ABS}}}
Assembles(text) == Referenced(text) \subseteq Defined(text)

\* position of the item after label L
Target(text, L) == CHOOSE k \in 1..Len(text) : text[k].k = "label" /\ text[k].lab = L

\* memory nothing has written yet
Uninit == <<>>
\* what such memory may hold
Garbage == {Zero64, U64(7)}
\* addresses HeapAlloc may return
Addresses == {Hex4(0, 1, 0, 4096), Hex4(0, 1, 0, 8192), Hex4(0, 1, 1, 0), Hex4(0, 1, 1, 4096)}

ExeNone ==
    [status |-> "none", ip |-> 0, stack |-> <<>>, locals |-> <<>>, heap |-> <<>>,
     rax |-> Uninit, code |-> <<0, 0>>, what |-> ""]

\* the value read from a slot: what was written, else the garbage g
Held(slot, g) == IF slot = Uninit THEN g ELSE slot

\* the heap block at ptr, if any: heap is a sequence of [ptr, len, cells]
\* with cells a sequence of <<index, value>> pairs written or read so far
BlockAt(heap, ptr) == {k \in 1..Len(heap) : heap[k].ptr = ptr}
CellAt(blk, idx) == {k \in 1..Len(blk.cells) : blk.cells[k][1] = idx}

\* cmp rax, rbx then the signed condition of cmovl / cmovg / setcc
AsmBin(op, rax, rbx) ==
    CASE op = ADD    -> Add64(rax, rbx)
      [] op = MAX_   -> IF LtS(rax, rbx) THEN rbx ELSE rax
      [] op = MIN_   -> IF LtS(rbx, rax) THEN rbx ELSE rax
      [] op = CMP_GT -> Bool64(LtS(rbx, rax))
      [] op = CMP_LT -> Bool64(LtS(rax, rbx))
      [] op = CMP_EQ -> Bool64(rax = rbx)
      [] op = CMP_NE -> Bool64(rax # rbx)
      [] op = CMP_GE -> Bool64(~LtS(rax, rbx))
      [] OTHER       -> Bool64(~LtS(rbx, rax))

Fault(x, why) == [x EXCEPT !.status = "fault", !.what = why]

\* mov rcx, [rax] with rax not a block of the heap: an access violation in
\* the first 64K, which are never mapped, and anything at all elsewhere
Stray(x, ptr) ==
    IF ptr[2] = 0 /\ ptr[3] = 0 /\ ptr[4] = 0 THEN Fault(x, "mov rcx, [rax] below 64K")
    ELSE [x EXCEPT !.status = "undefined", !.what = "mov rcx, [rax] outside the heap blocks"]

\* HeapAlloc(r12, 0, len*8 + 8) cannot serve a request of 2^35 bytes or more;
\* from len = 2^61 on the size wraps around to a small one
AllocFails(len) == ~(len[2] = 0 /\ len[3] = 0 /\ len[4] = 0) /\ len[4] < 2^13

\* the stack after a call: the callee owns the 32 bytes above its return
\* address, which are the top four entries of the virtual stack; it writes g
\* over those of them in W
Clobber(st, W, g) ==
    [k \in 1..Len(st) |-> IF Len(st) - k + 1 \in W THEN g ELSE st[k]]

\* one item of the program executed.  g is what uninitialised memory read
\* in this step holds, a the address HeapAlloc returns, W the home-space
\* entries the callee overwrites, f whether a call with rsp not a multiple
\* of 16 faults
asm_step(x, text, g, a, W, f) ==
    LET it == text[x.ip]
        st == x.stack
        nx == [x EXCEPT !.ip = @ + 1]
    IN
    IF it.k = "op" /\ Len(st) < Needs(it.op) THEN Fault(x, "pop below the virtual stack")
    ELSE
    CASE it.k = "label" -> nx
      [] it.k = "prologue" ->
            [nx EXCEPT !.locals = [k \in 1..((it.idx - 32) \div 8) |-> Uninit],
                       !.rax = IF it.imm = One64 THEN g ELSE Uninit]
      [] it.k = "epilogue" ->
            IF Len(st) % 2 = 1 /\ f THEN Fault(x, "misaligned call")
            ELSE [x EXCEPT !.status = "exited", !.rax = Held(x.rax, g),
                           !.code = Low32(Held(x.rax, g))]
      [] it.op = PUSH_IMM64 -> [nx EXCEPT !.rax = it.imm, !.stack = Append(st, it.imm)]
      [] it.op = DUP -> [nx EXCEPT !.rax = Top(st), !.stack = Append(st, Top(st))]
      [] it.op = LOAD_LOCAL ->
            IF it.idx >= Len(x.locals) THEN Fault(x, "local outside the frame")
            ELSE LET v == Held(x.locals[it.idx + 1], g)
                 IN [nx EXCEPT !.rax = v, !.locals[it.idx + 1] = v, !.stack = Append(st, v)]
      [] it.op = STORE_LOCAL ->
            IF it.idx >= Len(x.locals) THEN Fault(x, "local outside the frame")
            ELSE [nx EXCEPT !.rax = Top(st), !.locals[it.idx + 1] = Top(st),
                            !.stack = Pop(st, 1)]
      [] it.op \in BinOps ->
            LET r == AsmBin(it.op, Under(st, 1), Top(st))
            IN [nx EXCEPT !.rax = r, !.stack = Append(Pop(st, 2), r)]
      [] it.op = RET -> [nx EXCEPT !.rax = Top(st), !.stack = Pop(st, 1)]
      [] it.op = JZ_ABS ->
            [x EXCEPT !.rax = Top(st), !.stack = Pop(st, 1),
                      !.ip = IF Top(st) = Zero64 THEN Target(text, it.lab) ELSE x.ip + 1]
      [] it.op = JMP_ABS -> [x EXCEPT !.ip = Target(text, it.lab)]
      [] it.op = ARR_NEW ->
            LET len == Top(st)
                rest == Pop(st, 1)
            IN IF Len(rest) % 2 = 1 /\ f THEN Fault(x, "misaligned call")
               ELSE IF AllocFails(len) THEN Fault(x, "mov [rax], rbx with rax = NULL")
               ELSE [nx EXCEPT !.rax = a,
                               !.heap = Append(@, [ptr |-> a, len |-> len, cells |-> <<>>]),
                               !.stack = Append(Clobber(rest, W, g), a)]
      [] it.op = ARR_GET ->
            LET idx == Top(st)
                ptr == Under(st, 1)
                B == BlockAt(x.heap, ptr)
            IN IF B = {} THEN Stray(x, ptr)
               ELSE LET b == CHOOSE k \in B : TRUE
                        blk == x.heap[b]
                        C == CellAt(blk, idx)
                    IN IF ~LtU(idx, blk.len)
                       THEN [nx EXCEPT !.rax = ptr, !.stack = Append(Pop(st, 2), Zero64)]
                       ELSE IF C = {}
                       THEN [nx EXCEPT !.rax = ptr, !.stack = Append(Pop(st, 2), g),
                                       !.heap[b].cells = Append(@, <<idx, g>>)]
                       ELSE [nx EXCEPT !.rax = ptr,
                                       !.stack = Append(Pop(st, 2),
                                                        blk.cells[CHOOSE k \in C : TRUE][2])]
      [] OTHER -> \* ARR_SET
            LET val == Top(st)
                idx == Under(st, 1)
                ptr == Under(st, 2)
                B == BlockAt(x.heap, ptr)
            IN IF B = {} THEN Stray(x, ptr)
               ELSE LET b == CHOOSE k \in B : TRUE
                        blk == x.heap[b]
                        C == CellAt(blk, idx)
                    IN [nx EXCEPT !.rax = ptr, !.stack = Append(Pop(st, 3), ptr),
                                  !.heap[b].cells =
                                      IF ~LtU(idx, blk.len) THEN @
                                      ELSE IF C = {} THEN Append(@, <<idx, val>>)
                                      ELSE [@ EXCEPT ![CHOOSE k \in C : TRUE] = <<idx, val>>]]

----------------------------------------------------------------------------
(* Inputs: programs the parser can produce, enumerated by size *)

\* the line of every node of an expression set to ln (an expression is
\* parsed from the tokens of one line)
RECURSIVE AtLine(_, _)
AtLine(e, ln) ==
    [e EXCEPT !.line = ln, !.args = [i \in 1..Len(e.args) |-> AtLine(e.args[i], ln)]]

\* statements numbered by line in textual order, starting at line ln: a
\* statement takes one line, the else of an If and its end one more each
RECURSIVE Numbered(_, _)
Numbered(b, ln) ==
    IF b = <<>> THEN [stmts |-> <<>>, next |-> ln]
    ELSE LET s == Head(b)
             one ==
                IF s.kind = "If"
                THEN LET t == Numbered(s.thenBody, ln + 1)
                         e == Numbered(s.elseBody, t.next + 1)
                     IN [stmt |-> makeIf(AtLine(s.cond, ln), t.stmts, e.stmts, ln),
                         next |-> e.next + 1]
                ELSE [stmt |-> [s EXCEPT !.line = ln, !.expr = AtLine(s.expr, ln)],
                      next |-> ln + 1]
             rest == Numbered(Tail(b), one.next)
         IN [stmts |-> <<one.stmt>> \o rest.stmts, next |-> rest.next]

\* the first line of the body: `module m :` and `scope main range r :` precede
FirstLine == 3

\* statement sequences with exactly n statement nodes, built from the simple
\* statements S and the conditions C
RECURSIVE BodiesOfSize(_, _, _)
BodiesOfSize(n, S, C) ==
    IF n = 0 THEN {<<>>}
    ELSE UNION {
           LET firsts ==
                 (IF k = 1 THEN S ELSE {}) \cup
                 UNION { {makeIf(c, t, e, 0) :
                            c \in C, t \in BodiesOfSize(j, S, C),
                            e \in BodiesOfSize(k - 1 - j, S, C)} : j \in 0..(k - 1) }
           IN {<<f>> \o r : f \in firsts, r \in BodiesOfSize(n - k, S, C)}
           : k \in 1..n }

Bodies(maxNodes, S, C) ==
    {Numbered(b, FirstLine).stmts : b \in UNION {BodiesOfSize(n, S, C) : n \in 0..maxNodes}}

\* expressions with exactly n nodes over the grammar G: atoms, and the names
\* called with no, one, two and three arguments ("+" is Add)
RECURSIVE ExprsOfSize(_, _)
ExprsOfSize(n, G) ==
    IF n = 1 THEN G.atoms \cup {call(f, <<>>, 0) : f \in G.nullary}
    ELSE {call(f, <<a>>, 0) : f \in G.unary, a \in ExprsOfSize(n - 1, G)}
         \cup UNION { {IF f = "+" THEN add(a, b, 0) ELSE call(f, <<a, b>>, 0) :
                         f \in G.binary, a \in ExprsOfSize(j, G),
                         b \in ExprsOfSize(n - 1 - j, G)} : j \in 1..(n - 2) }
         \cup UNION { {call(f, <<a, b, c>>, 0) :
                         f \in G.ternary, a \in ExprsOfSize(jk[1], G),
                         b \in ExprsOfSize(jk[2], G),
                         c \in ExprsOfSize(n - 1 - jk[1] - jk[2], G)} :
                       jk \in {x \in (1..(n - 3)) \X (1..(n - 3)) : x[1] + x[2] <= n - 2} }

Exprs(maxNodes, G) == UNION {ExprsOfSize(n, G) : n \in 1..maxNodes}

----------------------------------------------------------------------------
(* Range / Capsules.  An arena is its capacity in bytes, its offset and its *)
(* range name; a handle is its pointer (arena and byte offset, or NoPtr), *)
(* its element count and its range name.  T is a type of ElemSize bytes.    *)

ElemSize == 2
NoPtr == [arena |-> 0, at |-> 0]

\* static RangeContext gRange
RangeContext == [current |-> "app", stack |-> <<>>]

enter(g, r) == [current |-> r, stack |-> Append(g.stack, g.current)]
leave(g) ==
    IF g.stack # <<>>
    THEN [current |-> g.stack[Len(g.stack)], stack |-> SubSeq(g.stack, 1, Len(g.stack) - 1)]
    ELSE g

\* CapsuleArena(cap, r)
CapsuleArena(c, r) == [size |-> c, off |-> 0, range |-> r]

\* CapsuleArena::alloc(n): the offset handed out, or bad_alloc
alloc(A, n) ==
    IF A.off + n > A.size THEN [thrown |-> "bad_alloc", A |-> A, p |-> 0]
    ELSE [thrown |-> "", A |-> [A EXCEPT !.off = @ + n], p |-> A.off]

\* CapsuleHandle<T> with its member initializers
CapsuleHandle == [ptr |-> NoPtr, count |-> 0, range |-> ""]

\* capsule_alloc<T>(A, n), A the arena number a
capsule_alloc(A, a, n) ==
    LET r == alloc(A, n * ElemSize)
    IN [thrown |-> r.thrown, A |-> r.A,
        h |-> IF r.thrown # "" THEN CapsuleHandle
              ELSE [ptr |-> [arena |-> a, at |-> r.p], count |-> n, range |-> A.range]]

\* operator[] testing the index only
subscript_norange(h, i, current) ==
    IF i >= h.count THEN [thrown |-> "Capsule index OOB", ref |-> NoPtr]
    ELSE [thrown |-> "", ref |-> [h.ptr EXCEPT !.at = @ + i * ElemSize]]

\* CapsuleHandle::operator[](i) with gRange.current = current: the exception
\* thrown, or the reference ptr[i]
subscript(h, i, current) ==
    IF h.range # current THEN [thrown |-> "Capsule range violation", ref |-> NoPtr]
    ELSE IF i >= h.count THEN [thrown |-> "Capsule index OOB", ref |-> NoPtr]
    ELSE [thrown |-> "", ref |-> [h.ptr EXCEPT !.at = @ + i * ElemSize]]

\* gRange at program start, no arena and no handle made yet
CapIdle ==
    [gRange |-> RangeContext, arenas |-> <<>>, handles |-> <<>>,
     last |-> [call |-> "none", thrown |-> "", ref |-> NoPtr, h |-> 0, i |-> 0]]

----------------------------------------------------------------------------
(* main: the stages after parsing *)

NoFlags == [run |-> FALSE, emit |-> FALSE, emit_nasm |-> FALSE]
RunFlags == [NoFlags EXCEPT !.run = TRUE]

\* one invocation of the driver on a parsed body
Job(b, flags, nofold) == [body |-> b, flags |-> flags, nofold |-> nofold]

\* the driver right after P.parseModule() returned the body of the first of
\* the invocations js
Start(js) ==
    /\ pc = "gen"
    /\ mode = js[1].flags
    /\ src = <<>>
    /\ norm = <<>>
    /\ toks = <<>>
    /\ body = js[1].body
    /\ si = 0
    /\ T = TyperInit
    /\ E = [EmitterInit EXCEPT !.nofold = js[1].nofold]
    /\ vm = VMIdle
    /\ nasm = NasmIdle
    /\ exe = ExeNone
    /\ out = <<>>
    /\ exit = -1
    /\ todo = Tail(js)
    /\ done = <<>>
    /\ cap = CapIdle

Parsed(b, flags) == Start(<<Job(b, flags, FALSE)>>)

\* the next invocation, once main has returned: a fresh Typer, Emitter and VM
Again ==
    /\ pc = "exit"
    /\ todo # <<>>
    /\ done' = Append(done, [T |-> T, E |-> E, vm |-> vm, nasm |-> nasm, exe |-> exe,
                             out |-> out, exit |-> exit])
    /\ todo' = Tail(todo)
    /\ body' = Head(todo).body
    /\ mode' = Head(todo).flags
    /\ E' = [EmitterInit EXCEPT !.nofold = Head(todo).nofold]
    /\ T' = TyperInit
    /\ vm' = VMIdle
    /\ nasm' = NasmIdle
    /\ exe' = ExeNone
    /\ si' = 0
    /\ out' = <<>>
    /\ exit' = -1
    /\ pc' = "gen"
    /\ UNCHANGED <<src, norm, toks, cap>>

\* one iteration of gen_func's loop; an exception unwinds to main's catch,
\* which prints the error and returns 2
GenStmt ==
    /\ pc = "gen"
    /\ si < Len(body)
    /\ LET TE == gen_stmt([T |-> T, E |-> E], body[si + 1])
       IN /\ T' = TE.T
          /\ E' = TE.E
          /\ IF TE.E.err # ""
             THEN pc' = "exit" /\ exit' = 2
             ELSE UNCHANGED <<pc, exit>>
    /\ si' = si + 1
    /\ UNCHANGED <<mode, src, norm, toks, body, vm, nasm, exe, out, todo, done, cap>>

\* E.finalize_bytes(), after gen_func returned
Finalize ==
    /\ pc = "gen"
    /\ si = Len(body)
    /\ E' = finalize(E)
    /\ pc' = "dispatch"
    /\ UNCHANGED <<mode, src, norm, toks, body, si, T, vm, nasm, exe, out, exit, todo, done, cap>>

\* if(run): VM vm(E.code.bytes, T.locals.size())
VMStart ==
    /\ pc = "dispatch"
    /\ mode.run
    /\ vm' = VMNew(Cardinality(DOMAIN T.locals))
    /\ pc' = "vm"
    /\ UNCHANGED <<mode, src, norm, toks, body, si, T, E, nasm, exe, out, exit, todo, done, cap>>

\* what the process does once run_all has read outside the stack, the
\* locals or the bytes: it is ended by the system, or it goes on to return
\* some value or to throw
UBOutcomes == {"crashed", "returned", "error"}

\* one iteration of run_all; RET prints the result and main returns 0, an
\* exception is caught by main, which returns 2
VMStep ==
    /\ pc = "vm"
    /\ vm.status = "running"
    /\ \E o \in UBOutcomes, g \in Garbage :
         LET r == run_step(E.bytes, vm)
             v == IF r.status # "undefined" THEN r
                  ELSE [r EXCEPT !.status = o, !.ret = IF o = "returned" THEN g ELSE @]
         IN /\ vm' = v
            /\ CASE v.status = "returned" ->
                      pc' = "exit" /\ exit' = 0 /\ out' = <<[kind |-> "ret", val |-> v.ret]>>
                 [] v.status = "error" ->
                      pc' = "exit" /\ exit' = 2 /\ out' = out
                 [] v.status = "crashed" ->
                      pc' = "crash" /\ UNCHANGED <<exit, out>>
                 [] OTHER -> UNCHANGED <<pc, exit, out>>
    /\ UNCHANGED <<mode, src, norm, toks, body, si, T, E, nasm, exe, todo, done, cap>>

NextRun == GenStmt \/ Finalize \/ VMStart \/ VMStep

\* main has read the text from standard input
Read(text, flags) ==
    /\ pc = "normalize"
    /\ mode = flags
    /\ src = text
    /\ norm = <<>>
    /\ toks = <<>>
    /\ body = <<>>
    /\ si = 0
    /\ T = TyperInit
    /\ E = EmitterInit
    /\ vm = VMIdle
    /\ nasm = NasmIdle
    /\ exe = ExeNone
    /\ out = <<>>
    /\ exit = -1
    /\ todo = <<>>
    /\ done = <<>>
    /\ cap = CapIdle

\* string norm = normalize_longform(src)
Normalize ==
    /\ pc = "normalize"
    /\ norm' = normalize_longform(src)
    /\ pc' = "lex"
    /\ UNCHANGED <<mode, src, toks, body, si, T, E, vm, nasm, exe, out, exit, todo, done, cap>>

\* Lexer L(norm)
Lex ==
    /\ pc = "lex"
    /\ toks' = Lexer(norm)
    /\ pc' = "parse"
    /\ UNCHANGED <<mode, src, norm, body, si, T, E, vm, nasm, exe, out, exit, todo, done, cap>>

\* Module mod = P.parseModule(): a parse error is caught by main, which
\* returns 2; reading through the moved-from pointer ends the process
Parse ==
    /\ pc = "parse"
    /\ \E ord \in ArgOrders :
         LET r == parseModule(toks, ord)
         IN /\ body' = IF r.ok THEN r.e.mainFn.body ELSE body
            /\ pc' = CASE r.ok -> "gen"
                       [] r.err = <<"null dereference">> -> "crash"
                       [] OTHER -> "exit"
            /\ exit' = IF r.ok \/ r.err = <<"null dereference">> THEN exit ELSE 2
            /\ out' = IF r.ok \/ r.err = <<"null dereference">> THEN out
                      ELSE <<[kind |-> "error", val |-> r.err]>>
    /\ UNCHANGED <<mode, src, norm, toks, si, T, E, vm, nasm, exe, todo, done, cap>>

NextDriver == Normalize \/ Lex \/ Parse \/ NextRun

\* meta_json: the locals sorted by index, as the "locals" array lists them
RECURSIVE SortByIndex(_)
SortByIndex(S) ==
    IF S = {} THEN <<>>
    ELSE LET m == CHOOSE l \in S : \A k \in S : l.index <= k.index
         IN <<m>> \o SortByIndex(S \ {m})

meta_locals(Ty) == SortByIndex({Ty.locals[n] : n \in DOMAIN Ty.locals})

NasmFlags == [NoFlags EXCEPT !.emit_nasm = TRUE]

\* if(emit_nasm): emit_nasm_pe up to its second loop: the prologue and the
\* labels of the branch targets
NasmStart ==
    /\ pc = "dispatch"
    /\ ~mode.run /\ ~mode.emit /\ mode.emit_nasm
    /\ nasm' = [MarkLabels(prologue(NasmIdle, Cardinality(DOMAIN T.locals), needsHeap(E.seq)),
                           E.seq, 1) EXCEPT !.status = "emitting"]
    /\ pc' = "nasm"
    /\ UNCHANGED <<mode, src, norm, toks, body, si, T, E, vm, exe, out, exit, todo, done, cap>>

\* one iteration of the second loop; a bad opcode throws, main returns 2
NasmEmit ==
    /\ pc = "nasm"
    /\ nasm.status = "emitting"
    /\ nasm.i < Len(E.seq)
    /\ nasm' = emit_instr(nasm, E.seq)
    /\ IF nasm'.status = "error"
       THEN pc' = "exit" /\ exit' = 2
       ELSE UNCHANGED <<pc, exit>>
    /\ UNCHANGED <<mode, src, norm, toks, body, si, T, E, vm, exe, out, todo, done, cap>>

\* end_emit: the epilogue; the text and build.bat are written, main returns 0
NasmWrite ==
    /\ pc = "nasm"
    /\ nasm.status = "end_emit" \/ (nasm.status = "emitting" /\ nasm.i >= Len(E.seq))
    /\ nasm' = [epilogue(nasm) EXCEPT !.status = "written"]
    /\ out' = <<[kind |-> "wrote", val |-> Zero64]>>
    /\ exit' = 0
    /\ pc' = "exit"
    /\ UNCHANGED <<mode, src, norm, toks, body, si, T, E, vm, exe, todo, done, cap>>

\* build.bat: nasm assembles the text and link makes the executable, which
\* is then started; an undefined label stops the build
Build ==
    /\ pc = "exit"
    /\ nasm.status = "written"
    /\ exe.status = "none"
    /\ exe' = IF Assembles(nasm.asmtext)
              THEN [ExeNone EXCEPT !.status = "running", !.ip = 1]
              ELSE [ExeNone EXCEPT !.status = "build failed", !.what = "symbol not defined"]
    /\ UNCHANGED <<pc, mode, src, norm, toks, body, si, T, E, vm, nasm, out, exit, todo, done, cap>>

\* mov rcx, [rax] with rax an address outside the heap blocks: the page is
\* not mapped (fault), or the word read there makes the index out of range
\* (miss), or in range (hit: ARR_GET reads a further word, ARR_SET writes one)
StrayOutcomes == {"fault", "miss", "hit"}

stray_access(x, op, o, g) ==
    LET n == Needs(op)
        ptr == Under(x.stack, n - 1)
        v == IF op = ARR_SET THEN ptr ELSE IF o = "hit" THEN g ELSE Zero64
    IN IF o = "fault" THEN Fault(x, "mov rcx, [rax] outside the heap blocks")
       ELSE [x EXCEPT !.ip = @ + 1, !.rax = ptr, !.stack = Append(Pop(x.stack, n), v),
                      !.what = IF op = ARR_SET /\ o = "hit" THEN "stray store" ELSE @]

\* the executable runs one item of the text
AsmStep ==
    /\ exe.status = "running"
    /\ LET it == nasm.asmtext[exe.ip]
           allocates == it.k = "op" /\ it.op = ARR_NEW
           used == {exe.heap[k].ptr : k \in 1..Len(exe.heap)}
           below == IF Len(exe.stack) - 1 < 4 THEN Len(exe.stack) - 1 ELSE 4
       IN \E g \in Garbage, f \in BOOLEAN,
             a \in IF allocates THEN Addresses \ used ELSE {Zero64},
             W \in IF allocates THEN SUBSET (1..below) ELSE {{}} :
               \E o \in StrayOutcomes :
                   LET r == asm_step(exe, nasm.asmtext, g, a, W, f)
                   IN exe' = IF r.status = "undefined" THEN stray_access(exe, it.op, o, g) ELSE r
    /\ UNCHANGED <<pc, mode, src, norm, toks, body, si, T, E, vm, nasm, out, exit, todo, done, cap>>

NextNasm == NasmStart \/ NasmEmit \/ NasmWrite \/ Build \/ AsmStep

EmitFlags == [NoFlags EXCEPT !.emit = TRUE]

\* meta_json: the locals by index, then the warnings: the Typer's, then one
\* W100 per entry of E.folds
meta_json(Ty, Em) ==
    [locals |-> meta_locals(Ty),
     warnings |-> Ty.warns \o [k \in 1..Len(Em.folds) |->
                                  [code |-> "W100", msg |-> Em.folds[k].what,
                                   line |-> Em.folds[k].line]]]

\* if(emit): the hex dump of the bytes and the metadata on standard output
EmitHex ==
    /\ pc = "dispatch"
    /\ ~mode.run /\ mode.emit
    /\ out' = <<[kind |-> "hex", val |-> E.bytes], [kind |-> "meta", val |-> meta_json(T, E)]>>
    /\ exit' = 0
    /\ pc' = "exit"
    /\ UNCHANGED <<mode, src, norm, toks, body, si, T, E, vm, nasm, exe, todo, done, cap>>

\* no mode flag: the usage line on standard error, main returns 1
Usage ==
    /\ pc = "dispatch"
    /\ ~mode.run /\ ~mode.emit /\ ~mode.emit_nasm
    /\ exit' = 1
    /\ pc' = "exit"
    /\ UNCHANGED <<mode, src, norm, toks, body, si, T, E, vm, nasm, exe, out, todo, done, cap>>

----------------------------------------------------------------------------
(* Spec: every body of at most MaxNodes statements over two names, compiled *)
(* and run with --run                                                       *)

MaxNodes == 3

SimpleStmts ==
    { makeLet("x", "T_Implicit", num(U64(1), 0), 0),
      makeLet("x", "T_Int", num(U64(2), 0), 0),
      makeLet("x", "T_Arr", call("arr_new", <<num(U64(1), 0)>>, 0), 0),
      makeLet("y", "T_Implicit", call("arr_of", <<var("x", 0)>>, 0), 0),
      makeLet("y", "T_Int", var("x", 0), 0),
      makeRet(var("x", 0), 0),
      makeRet(num(U64(7), 0), 0) }

Conds == { num(Zero64, 0), var("x", 0) }

Init == \E b \in Bodies(MaxNodes, SimpleStmts, Conds) : Parsed(b, RunFlags)

Spec == Init /\ [][NextRun]_vars

----------------------------------------------------------------------------
(* Claims about compiled statement programs (Spec) *)

Compiled == pc \in {"dispatch", "vm", "exit"} /\ E.err = ""
Ran == pc = "exit" /\ vm.status # "idle"

\* the Let statements of a body in textual order, arms of If included
RECURSIVE LetsOf(_)
LetsOf(b) ==
    IF b = <<>> THEN <<>>
    ELSE LET s == Head(b)
         IN (CASE s.kind = "Let" -> <<s>>
               [] s.kind = "If" -> LetsOf(s.thenBody) \o LetsOf(s.elseBody)
               [] OTHER -> <<>>) \o LetsOf(Tail(b))

\* the position of the first Let of name n in the sequence of Lets ls
FirstLet(ls, n) == CHOOSE i \in 1..Len(ls) : ls[i].name = n /\ \A j \in 1..(i - 1) : ls[j].name # n

LetNames(ls) == {ls[i].name : i \in 1..Len(ls)}

\* the instructions of seq with one of the opcodes ops, in order
RECURSIVE Only(_, _)
Only(seq, ops) ==
    IF seq = <<>> THEN <<>>
    ELSE (IF Head(seq).op \in ops THEN <<Head(seq)>> ELSE <<>>) \o Only(Tail(seq), ops)

\* C3: every compiled program that is run executes exactly one RET and
\* returns a result; the run never ends at or past the end of the bytes
C3_EveryRunReturns == Ran => (vm.status = "returned" /\ vm.nret = 1)

\* C4: after finalize_bytes the u32 operand of every JZ_ABS / JMP_ABS in the
\* bytes is the offset at which some instruction of the sequence begins
C4_BranchTargetsAreInstructionStarts ==
    Compiled =>
        \A i \in 1..Len(E.seq) :
            E.seq[i].op \in {JZ_ABS, JMP_ABS} =>
                get_u32(E.bytes, off(E.seq, i - 1) + 1) \in
                    {off(E.seq, k) : k \in 0..(Len(E.seq) - 1)}

\* the names of the Lets that precede the first Let of n
NamesBefore(ls, n) == {ls[j].name : j \in 1..(FirstLet(ls, n) - 1)}

\* C9: the slot index of a local is the number of distinct names declared
\* before its first Let; the indices are 0..n-1 without duplicates, every
\* LOAD_LOCAL / STORE_LOCAL slot is below the length n of the VM's locals,
\* and the metadata lists the locals by index 0,1,...,n-1
C9_SlotsAreDeclarationOrder ==
    Compiled =>
        LET ls == LetsOf(body)
            n == Cardinality(DOMAIN T.locals)
            M == meta_locals(T)
        IN /\ DOMAIN T.locals = LetNames(ls)
           /\ \A nm \in DOMAIN T.locals :
                T.locals[nm].index = Cardinality(NamesBefore(ls, nm))
           /\ {T.locals[nm].index : nm \in DOMAIN T.locals} = 0..(n - 1)
           /\ \A i \in 1..Len(E.seq) :
                E.seq[i].op \in {LOAD_LOCAL, STORE_LOCAL} =>
                    /\ E.seq[i].idx < n
                    /\ get_u16(E.bytes, off(E.seq, i - 1) + 1) = E.seq[i].idx
           /\ vm.status # "idle" => Len(vm.locals) = n
           /\ Len(M) = n
           /\ \A i \in 1..Len(M) : M[i].index = i - 1

\* a compiled body with two locals, one of them first declared in an arm of
\* an If, handed to the VM
C9_Witness ==
    /\ Compiled
    /\ vm.status # "idle"
    /\ Cardinality(DOMAIN T.locals) = 2
    /\ \E i \in 1..Len(body) :
          body[i].kind = "If" /\ LetsOf(body[i].elseBody) # <<>>

\* C10: a Let of a name already in the table changes nothing: every local is
\* as its first Let made it (type, explicit flag, line, slot), the count is
\* the number of distinct names, W001 is recorded for first Lets only, and
\* the STORE_LOCAL of every Let targets the slot of the first Let of its name
C10_RepeatedLetKeepsLocal ==
    Compiled =>
        LET ls == LetsOf(body)
            st == Only(E.seq, {STORE_LOCAL})
            firstImplicit == {i \in 1..Len(ls) : /\ ls[i].etype = "T_Implicit"
                                                 /\ FirstLet(ls, ls[i].name) = i}
        IN /\ \A nm \in LetNames(ls) :
                /\ nm \in DOMAIN T.locals
                /\ LET f == ls[FirstLet(ls, nm)]
                   IN /\ T.locals[nm].ty = LetType(f)
                      /\ T.locals[nm].explicitDeclared = (f.etype # "T_Implicit")
                      /\ T.locals[nm].declLine = f.line
                      /\ T.locals[nm].index = Cardinality(NamesBefore(ls, nm))
           /\ T.nextIdx = Cardinality(LetNames(ls))
           /\ Cardinality(DOMAIN T.locals) = Cardinality(LetNames(ls))
           /\ Len(T.warns) = Cardinality(firstImplicit)
           /\ \A w \in 1..Len(T.warns) :
                \E i \in firstImplicit : T.warns[w].line = ls[i].line
                                         /\ T.warns[w].code = "W001"
           /\ Len(st) = Len(ls)
           /\ \A k \in 1..Len(st) :
                st[k].idx = Cardinality(NamesBefore(ls, ls[k].name))

\* a compiled body in which a name is declared twice with different type
\* annotations, the second time implicitly
C10_Witness ==
    /\ Compiled
    /\ LET ls == LetsOf(body)
       IN \E i, j \in 1..Len(ls) :
            /\ i < j
            /\ ls[i].name = ls[j].name
            /\ ls[i].etype = "T_Arr"
            /\ ls[j].etype = "T_Implicit"

----------------------------------------------------------------------------
(* SpecFold: `return e` for every constant expression e of at most          *)
(* MaxFoldNodes nodes, compiled and run as the emitter lowers it, then      *)
(* compiled without folding and run                                         *)

MaxFoldNodes == 4

TopBit == Hex4(Half, 0, 0, 0)
AllOnes == Hex4(Limb - 1, Limb - 1, Limb - 1, Limb - 1)

FoldGrammar ==
    [atoms |-> {num(One64, 0), num(TopBit, 0), num(AllOnes, 0)},
     nullary |-> {},
     unary |-> {"ever_exact", "utterly_inline"},
     binary |-> {"+", "max", "min"} \cup CmpNames,
     ternary |-> {}]

ReturnOf(e) == Numbered(<<makeRet(e, 0)>>, FirstLine).stmts

InitFold ==
    \E e \in Exprs(MaxFoldNodes, FoldGrammar) :
        Start(<<Job(ReturnOf(e), RunFlags, FALSE), Job(ReturnOf(e), RunFlags, TRUE)>>)

NextFold == NextRun \/ Again

SpecFold == InitFold /\ [][NextFold]_vars

\* C5: the value the folder computes for a constant expression is the value
\* the VM returns for its unfolded lowering
C5_FoldingPreservesValue ==
    (pc = "exit" /\ E.nofold /\ E.err = "") =>
        /\ vm.status = "returned"
        /\ is_const_expr(body[1].expr).ok
        /\ vm.ret = is_const_expr(body[1].expr).out

\* the calls of f with n arguments in an expression
RECURSIVE CallsIn(_, _, _)
CallsIn(e, f, n) ==
    LET RECURSIVE Sum(_)
        Sum(i) == IF i = 0 THEN 0 ELSE Sum(i - 1) + CallsIn(e.args[i], f, n)
    IN (IF e.kind = "Call" /\ e.name = f /\ Len(e.args) = n THEN 1 ELSE 0) + Sum(Len(e.args))

\* C6: every one-argument utterly_inline call of a compiled program has one
\* hint:inline warning of its own
C6_EveryInlineCallIsHinted ==
    (Compiled /\ ~E.nofold /\ Len(body) = 1 /\ body[1].kind = "Ret") =>
        /\ Len(Only([i \in 1..Len(E.folds) |-> [op |-> E.folds[i].what]],
                    {<<"hint:", "inline">>}))
             = CallsIn(body[1].expr, "utterly_inline", 1)
        /\ \A i \in 1..Len(E.folds) : E.folds[i].line = body[1].expr.line

\* C8: a call whose constant evaluation succeeds lowers to one PUSH_IMM64 of
\* the folded value and records one W100 fold:<name> at the call's line
C8_FoldedCallPushesAndWarns ==
    (Compiled /\ ~E.nofold /\ Len(body) = 1 /\ body[1].kind = "Ret"
       /\ body[1].expr.kind = "Call"
       /\ body[1].expr.name \in {"max", "min", "ever_exact"} \cup CmpNames
       /\ is_const_expr(body[1].expr).ok) =>
        /\ E.seq = <<[IRInstr(PUSH_IMM64) EXCEPT !.hasImm = TRUE,
                                                 !.imm = is_const_expr(body[1].expr).out],
                     IRInstr(RET)>>
        /\ E.folds = <<[what |-> <<"fold:", body[1].expr.name>>,
                        line |-> body[1].expr.line]>>

----------------------------------------------------------------------------
(* SpecExpr: for every expression e of at most MaxExprNodes nodes and a     *)
(* preceding Let that sets up a local and the array heap, three runs:       *)
(* `return e`, `return ever_exact(e)`, `return utterly_inline(e)`           *)

MaxExprNodes == 3

ExprGrammar ==
    [atoms |-> {num(One64, 0), num(TopBit, 0), var("x", 0)},
     nullary |-> {"arr_of"},
     unary |-> {"ever_exact", "utterly_inline", "arr_new", "arr_of"},
     binary |-> {"+", "max", "gt", "arr_get", "arr_of"},
     ternary |-> {"arr_set"}]

Prefixes ==
    { <<makeLet("x", "T_Implicit", call("arr_of", <<num(U64(7), 0)>>, 0), 0)>>,
      <<makeLet("x", "T_Int", num(U64(2), 0), 0)>> }

Returning(p, e) == Numbered(p \o <<makeRet(e, 0)>>, FirstLine).stmts

InitExpr ==
    \E p \in Prefixes, e \in Exprs(MaxExprNodes, ExprGrammar) :
        Start(<<Job(Returning(p, e), RunFlags, FALSE),
                Job(Returning(p, call("ever_exact", <<e>>, 0)), RunFlags, FALSE),
                Job(Returning(p, call("utterly_inline", <<e>>, 0)), RunFlags, FALSE)>>)

NextExpr == NextRun \/ Again

SpecExpr == InitExpr /\ [][NextExpr]_vars

\* how a run ended, as far as the program can observe it
Outcome(x, v) == [exit |-> x, status |-> v.status, ret |-> v.ret, locals |-> v.locals,
                  arrays |-> v.arrays]

\* C7: the runs of ever_exact(e) and of utterly_inline(e) end as the run of
\* e does: the same value returned, the same locals and the same array heap
C7_WrappersAreIdentity ==
    (pc = "exit" /\ Len(done) = 2) =>
        /\ Outcome(done[1].exit, done[1].vm) = Outcome(done[2].exit, done[2].vm)
        /\ Outcome(done[1].exit, done[1].vm) = Outcome(exit, vm)

\* the three runs returned, for an e that is not constant and allocates
C7_Witness ==
    /\ pc = "exit"
    /\ Len(done) = 2
    /\ vm.status = "returned"
    /\ ~is_const_expr(body[2].expr.args[1]).ok
    /\ Len(vm.arrays) = 2
    /\ vm.ret # Zero64

----------------------------------------------------------------------------
(* SpecDriver: the whole pipeline of main on source texts, with --run *)

\* the words of a line, one blank between them
RECURSIVE Spaced(_)
Spaced(ws) == IF Len(ws) <= 1 THEN ws ELSE <<Head(ws), Blank>> \o Spaced(Tail(ws))

Header == << Spaced(<<"module", "M", ":">>),
             Spaced(<<"scope", "main", "range", "r", ":">>) >>

\* module M : / scope main range r : / return n / <endw>
CoreReturn(n, endw) == Header \o << Spaced(<<"return", n>>), <<endw>> >>

EndWords == {"end", "END", "End"}

\* other programs: long form, a comment, a call, a branch, a missing name
OtherSources ==
    { Header \o << Spaced(<<"declare", "explicit", "integer", "named", "x", "equals", "1", "plus", "2">>),
                   Spaced(<<"return", "x">>), <<"END">> >>,
      Header \o << Spaced(<<"declare", "implicit", "named", "x", "equals", "5">>) \o <<Blank, ";", "end">>,
                   Spaced(<<"return", "x">>) \o <<Blank>>, <<"END">> >>,
      Header \o << <<"return", Blank, "max", "(", "1", ",", "2", ")">>, <<"END">> >>,
      Header \o << <<"if", Blank, "(", "0", ")", Blank, ":">>, Spaced(<<"return", "1">>),
                   <<"else", Blank, ":">>, Spaced(<<"return", "2">>), <<"END">>, <<"END">> >>,
      Header \o << Spaced(<<"let", "=", "1">>), <<"END">> >>,
      << Spaced(<<"MODULE", "Demo", ":">>), Spaced(<<"Scope", "Main", "range", "r", ":">>),
         <<"return", Blank, "(", "X", ")", "$">>, <<"End">> >> }

Sources == {CoreReturn(n, w) : n \in DOMAIN NumberValue, w \in EndWords} \cup OtherSources

InitDriver == \E text \in Sources : Read(text, RunFlags)

SpecDriver == InitDriver /\ [][NextDriver]_vars

\* the bytes of a 64-bit value, low byte first
LE8(v) == << v[1] % 256, v[1] \div 256, v[2] % 256, v[2] \div 256,
             v[3] % 256, v[3] \div 256, v[4] % 256, v[4] \div 256 >>

\* C1: for every numeric literal n, the program `module M :`, `scope main
\* range r :`, `return n`, `end` with lower-case keywords goes through the
\* whole pipeline without error, finalizes to the 10 bytes 01, n as u64
\* little-endian, 21, and the VM returns n.
C1_CoreReturnCompilesAndRuns ==
    \A n \in DOMAIN NumberValue :
        (src = CoreReturn(n, "end") /\ pc = "exit") =>
            /\ exit = 0
            /\ E.bytes = <<PUSH_IMM64>> \o LE8(NumberValue[n]) \o <<RET>>
            /\ vm.status = "returned"
            /\ vm.ret = NumberValue[n]

----------------------------------------------------------------------------
(* SpecBackends: every body of at most MaxAsmNodes statements, compiled and *)
(* run with --run, then compiled with --emit-nasm, built and run            *)

MaxAsmNodes == 3

BackendStmts ==
    { makeLet("x", "T_Implicit", num(U64(1), 0), 0),
      makeLet("x", "T_Arr", call("arr_new", <<num(U64(1), 0)>>, 0), 0),
      makeLet("y", "T_Implicit", call("arr_of", <<var("x", 0)>>, 0), 0),
      makeRet(var("x", 0), 0),
      makeRet(call("arr_get", <<var("x", 0), num(Zero64, 0)>>, 0), 0),
      makeRet(add(var("x", 0), call("arr_new", <<num(U64(2), 0)>>, 0), 0), 0),
      makeRet(call("max", <<var("x", 0), num(AllOnes, 0)>>, 0), 0) }

InitBackends ==
    \E b \in Bodies(MaxAsmNodes, BackendStmts, Conds) :
        Start(<<Job(b, RunFlags, FALSE), Job(b, NasmFlags, FALSE)>>)

NextBackends == NextRun \/ Again \/ NextNasm

SpecBackends == InitBackends /\ [][NextBackends]_vars

\* C2: whenever the VM returned a result and the executable made from the
\* emitted assembly of the same program reaches its ExitProcess call, the
\* VM's result truncated to 32 bits is the value in eax there.
C2_BackendsAgree ==
    (exe.status = "exited" /\ Len(done) = 1 /\ done[1].vm.status = "returned") =>
        exe.code = Low32(done[1].vm.ret)

----------------------------------------------------------------------------
(* SpecNames: bodies whose expressions name locals before, at and after the *)
(* Let that declares them, compiled and run with --run                      *)

MaxNameNodes == 3

NameStmts ==
    { makeLet("x", "T_Int", num(U64(1), 0), 0),
      makeLet("y", "T_Int", var("x", 0), 0),
      makeLet("y", "T_Int", add(var("y", 0), num(U64(1), 0), 0), 0),
      makeRet(var("x", 0), 0),
      makeRet(var("y", 0), 0) }

InitNames == \E b \in Bodies(MaxNameNodes, NameStmts, Conds) : Parsed(b, RunFlags)

SpecNames == InitNames /\ [][NextRun]_vars

\* the names of the Var nodes of an expression
RECURSIVE VarsIn(_)
VarsIn(e) ==
    (IF e.kind = "Var" THEN {e.name} ELSE {}) \cup
    UNION {VarsIn(e.args[i]) : i \in 1..Len(e.args)}

\* walking the statements of b in textual order with D the names of the Lets
\* of earlier statements: whether some expression names a local outside D,
\* and the names declared at the end
RECURSIVE Undeclared(_, _)
Undeclared(b, D) ==
    IF b = <<>> THEN [bad |-> FALSE, D |-> D]
    ELSE LET s == Head(b)
             one == CASE s.kind = "Let" ->
                            [bad |-> ~(VarsIn(s.expr) \subseteq D), D |-> D \cup {s.name}]
                      [] s.kind = "Ret" -> [bad |-> ~(VarsIn(s.expr) \subseteq D), D |-> D]
                      [] OTHER ->
                            LET t == Undeclared(s.thenBody, D)
                                e == Undeclared(s.elseBody, t.D)
                            IN [bad |-> ~(VarsIn(s.cond) \subseteq D) \/ t.bad \/ e.bad,
                                D |-> e.D]
             rest == Undeclared(Tail(b), one.D)
         IN [bad |-> one.bad \/ rest.bad, D |-> rest.D]

\* C11: a body in which some expression names a variable that no Let of an
\* earlier statement declares fails to compile with the use-of-undeclared
\* error and nothing is emitted or run; a body in which every reference
\* follows a Let of its name (in any If arm) compiles.
C11_UndeclaredUseFails ==
    pc # "gen" =>
        IF Undeclared(body, {}).bad
        THEN E.err = "use of undeclared" /\ E.bytes = <<>> /\ vm.status = "idle" /\ exit = 2
        ELSE E.err = ""

----------------------------------------------------------------------------
(* SpecArity: `let int x = 1` then `return e`, e a call of a builtin or of  *)
(* another name with 0..MaxArgs arguments, constant or not, alone or as an  *)
(* argument of a call that could fold; in every mode of main                *)

MaxArgs == 4

ArgAtoms == {num(U64(1), 0), var("x", 0)}
ArgLists == UNION {[1..k -> ArgAtoms] : k \in 0..MaxArgs}

Builtins ==
    {"max", "min", "ever_exact", "utterly_inline", "arr_new", "arr_get", "arr_set", "arr_of"}
        \cup CmpNames

FlatCalls == {call(nm, as, 0) : nm \in Builtins \cup {"foo"}, as \in ArgLists}

ArityExprs ==
    FlatCalls
      \cup {call("ever_exact", <<c>>, 0) : c \in FlatCalls}
      \cup {call("max", <<num(U64(1), 0), c>>, 0) : c \in FlatCalls}
      \cup {call("arr_of", <<c>>, 0) : c \in FlatCalls}

AllFlags == {RunFlags, EmitFlags, NasmFlags, NoFlags}

InitArity ==
    \E e \in ArityExprs, flags \in AllFlags :
        Parsed(Returning(<<makeLet("x", "T_Int", num(U64(1), 0), 0)>>, e), flags)

NextArity == NextRun \/ EmitHex \/ Usage \/ NasmStart \/ NasmEmit \/ NasmWrite

SpecArity == InitArity /\ [][NextArity]_vars

\* the argument count each builtin takes; arr_of takes any
Arity(nm) ==
    CASE nm \in {"ever_exact", "utterly_inline", "arr_new"} -> 1
      [] nm = "arr_set" -> 3
      [] OTHER -> 2

\* what is wrong with the calls of an expression
RECURSIVE BadCalls(_)
BadCalls(e) ==
    (CASE e.kind = "Call" /\ e.name \notin Builtins -> {"unknown"}
       [] e.kind = "Call" /\ e.name # "arr_of" /\ Len(e.args) # Arity(e.name) -> {"arity"}
       [] OTHER -> {})
    \cup UNION {BadCalls(e.args[i]) : i \in 1..Len(e.args)}

ArityErrors ==
    {"max/min need 2 args", "ever_exact needs 1 arg", "utterly_inline needs 1 arg",
     "cmp needs 2 args", "arr_new(n) needs 1 arg", "arr_get(a,i) needs 2 args",
     "arr_set(a,i,v) needs 3 args"}

\* C12: a call of a builtin with an argument count other than its arity
\* makes the compilation fail with that builtin's error, constant arguments
\* or not, and a call of any other name fails as an unknown call; arr_of
\* takes any number of arguments.  After the failure main returns 2, no
\* bytes are finalized, the VM does not run and no mode writes output.
C12_BadCallsFail ==
    pc # "gen" =>
        LET B == BadCalls(body[2].expr)
        IN IF B = {} THEN E.err = ""
           ELSE /\ pc = "exit" /\ exit = 2
                /\ B = {"unknown"} => E.err = "unknown call"
                /\ B = {"arity"} => E.err \in ArityErrors
                /\ E.err \in ArityErrors \cup {"unknown call"}
                /\ E.bytes = <<>> /\ vm.status = "idle"
                /\ nasm.status = "idle" /\ out = <<>>

\* --emit on `return gt(1, 1, 1)`: three constant arguments, refused
C12_Witness ==
    /\ pc = "exit"
    /\ mode.emit
    /\ body[2].expr.name = "gt"
    /\ Len(body[2].expr.args) = 3
    /\ \A i \in 1..3 : body[2].expr.args[i].kind = "Num"
    /\ E.err = "cmp needs 2 args"

----------------------------------------------------------------------------
(* SpecBytes: the VM on byte sequences that no compiler need have made: a   *)
(* prefix that pushes values, then up to MaxBytes bytes                     *)

MaxBytes == 3

\* opcodes (ADD standing for the two-operand ones), an operand byte that is
\* no opcode, and a byte outside the Op enum
ByteAlphabet ==
    {PUSH_IMM64, ADD, DUP, STORE_LOCAL, LOAD_LOCAL, RET, ARR_NEW, ARR_GET, ARR_SET,
     JZ_ABS, JMP_ABS, 0, 255}

PushBytes(v) == <<PUSH_IMM64>> \o LE8(v)

BytePrefixes == {<<>>, PushBytes(One64), PushBytes(Zero64) \o PushBytes(One64)}

ByteTails == UNION {[1..k -> ByteAlphabet] : k \in 0..MaxBytes}

\* VM vm(bytes, localCount) about to run
OnVM(bytes, localCount) ==
    /\ pc = "vm"
    /\ mode = RunFlags
    /\ src = <<>>
    /\ norm = <<>>
    /\ toks = <<>>
    /\ body = <<>>
    /\ si = 0
    /\ T = TyperInit
    /\ E = [EmitterInit EXCEPT !.bytes = bytes]
    /\ vm = VMNew(localCount)
    /\ nasm = NasmIdle
    /\ exe = ExeNone
    /\ out = <<>>
    /\ exit = -1
    /\ todo = <<>>
    /\ done = <<>>
    /\ cap = CapIdle

InitBytes == \E p \in BytePrefixes, t \in ByteTails, n \in 0..1 : OnVM(p \o t, n)

SpecBytes == InitBytes /\ [][VMStep]_vars

\* C13: on any byte sequence the run ends by a RET that returns the top of
\* the stack or by the VM error; it never ends otherwise, and never goes on
\* after an instruction found fewer operands on the stack than it takes.
C13_RunEndsByRetOrError ==
    vm.status # "running" =>
        \/ vm.status = "error" /\ vm.what \in {"VM OOB", "VM bad opcode"}
        \/ vm.status = "returned" /\ vm.stack # <<>> /\ vm.ret = Top(vm.stack) /\ vm.what = ""

----------------------------------------------------------------------------
(* SpecArr: the VM on array programs: an array <<0, 7>>, its handle kept in *)
(* local 0, and an array <<9>>; then up to MaxArrOps operations ARR_NEW /   *)
(* ARR_GET / ARR_SET on handles and indices in and out of range             *)

MaxArrOps == 1

ArrHandles == {Zero64, One64, U64(2), U64(3), AllOnes, Hex4(0, 1, 0, 1)}
ArrIndices == {Zero64, One64, U64(2), AllOnes, Hex4(0, 1, 0, 0)}

ArrPrefix ==
    PushBytes(U64(2)) \o <<ARR_NEW>> \o PushBytes(One64) \o PushBytes(U64(7)) \o <<ARR_SET>>
        \o <<STORE_LOCAL, 0, 0>>
        \o PushBytes(One64) \o <<ARR_NEW>> \o PushBytes(Zero64) \o PushBytes(U64(9)) \o <<ARR_SET>>

ArrOps ==
    {PushBytes(h) \o PushBytes(i) \o <<ARR_GET>> : h \in ArrHandles, i \in ArrIndices}
      \cup {PushBytes(h) \o PushBytes(i) \o PushBytes(U64(5)) \o <<ARR_SET>> :
              h \in ArrHandles, i \in ArrIndices}
      \cup {PushBytes(n) \o <<ARR_NEW>> : n \in {One64, AllOnes}}

RECURSIVE Flatten(_)
Flatten(ss) == IF ss = <<>> THEN <<>> ELSE Head(ss) \o Flatten(Tail(ss))

InitArr ==
    \E ops \in UNION {[1..k -> ArrOps] : k \in 0..MaxArrOps} :
        OnVM(ArrPrefix \o Flatten(ops) \o <<RET>>, 1)

SpecArr == InitArr /\ [][VMStep]_vars

\* the opcode run_all is about to execute
NextOp == IF vm.status = "running" /\ vm.ip < Len(E.bytes) THEN E.bytes[vm.ip + 1] ELSE 0

\* handle id names one of the arrays allocated so far and idx one of its
\* elements, as signed integers
Addresses1(id, idx) ==
    \E h \in 1..Len(vm.arrays) : id = U64(h) /\ \E k \in 0..(Len(vm.arrays[h]) - 1) : idx = U64(k)

\* C14: ARR_GET with a handle outside 1..(arrays allocated) or an index
\* outside 0..len-1 pushes 0, ARR_SET in those cases pushes its handle
\* operand back; both go on without an error and change no array and no local.
C14_ArrayMissIsSilent ==
    [][ /\ (NextOp = ARR_GET /\ ~Addresses1(Under(vm.stack, 1), Top(vm.stack))) =>
              /\ vm'.stack = Append(Pop(vm.stack, 2), Zero64)
              /\ vm'.arrays = vm.arrays /\ vm'.locals = vm.locals
              /\ vm'.status = "running" /\ vm'.ip = vm.ip + 1
        /\ (NextOp = ARR_SET /\ ~Addresses1(Under(vm.stack, 2), Under(vm.stack, 1))) =>
              /\ vm'.stack = Append(Pop(vm.stack, 3), Under(vm.stack, 2))
              /\ vm'.arrays = vm.arrays /\ vm'.locals = vm.locals
              /\ vm'.status = "running" /\ vm'.ip = vm.ip + 1
      ]_vars

\* an ARR_SET on a handle past the arrays allocated has just run, with the
\* two arrays as they were and the handle back on the stack
C14_Witness ==
    /\ vm.status = "running"
    /\ vm.ip > Len(ArrPrefix)
    /\ E.bytes[vm.ip] = ARR_SET
    /\ Top(vm.stack) \in {U64(3), Hex4(0, 1, 0, 1)}
    /\ vm.arrays = <<<<Zero64, U64(7)>>, <<U64(9)>>>>

----------------------------------------------------------------------------
(* SpecAsmArr: bodies reading and writing arrays through handles that are   *)
(* zero, small integers or real arrays, at indices in and out of range,     *)
(* run with --run, then compiled with --emit-nasm, built and run            *)

MaxAsmArrNodes == 2

AsmArrStmts ==
    { makeLet("a", "T_Arr", call("arr_new", <<num(U64(2), 0)>>, 0), 0),
      makeRet(call("arr_get", <<var("a", 0), num(Zero64, 0)>>, 0), 0),
      makeRet(call("arr_get", <<var("a", 0), num(U64(2), 0)>>, 0), 0),
      makeRet(call("arr_get", <<var("a", 0), num(AllOnes, 0)>>, 0), 0),
      makeRet(call("arr_get", <<num(Zero64, 0), num(Zero64, 0)>>, 0), 0),
      makeRet(call("arr_get", <<num(One64, 0), num(Zero64, 0)>>, 0), 0),
      makeRet(call("arr_set", <<var("a", 0), num(U64(2), 0), num(U64(5), 0)>>, 0), 0),
      makeRet(call("arr_set", <<num(Zero64, 0), num(Zero64, 0), num(U64(5), 0)>>, 0), 0) }

InitAsmArr ==
    \E b \in Bodies(MaxAsmArrNodes, AsmArrStmts, {}) :
        Start(<<Job(b, RunFlags, FALSE), Job(b, NasmFlags, FALSE)>>)

SpecAsmArr == InitAsmArr /\ [][NextBackends]_vars

\* the item the executable is about to run, if it is the array operation op
\* with its operands on the stack
AsmAt(op) ==
    /\ exe.status = "running"
    /\ nasm.asmtext[exe.ip].k = "op"
    /\ nasm.asmtext[exe.ip].op = op
    /\ Len(exe.stack) >= Needs(op)

\* ptr is the address of a block an ARR_NEW of this run returned and idx an
\* index below its length
AsmAddresses(ptr, idx) ==
    \E k \in 1..Len(exe.heap) : exe.heap[k].ptr = ptr /\ LtU(idx, exe.heap[k].len)

\* C15: in the executable, ARR_GET on a handle that is zero or that no array
\* creation returned, or on an index out of range, pushes 0, and ARR_SET in
\* those cases pushes the handle and stores nothing; neither faults.
C15_AsmArrayMissIsSilent ==
    [][ /\ (AsmAt(ARR_GET) /\ ~AsmAddresses(Under(exe.stack, 1), Top(exe.stack))) =>
              /\ exe'.status = "running"
              /\ exe'.stack = Append(Pop(exe.stack, 2), Zero64)
              /\ exe'.heap = exe.heap
        /\ (AsmAt(ARR_SET) /\ ~AsmAddresses(Under(exe.stack, 2), Under(exe.stack, 1))) =>
              /\ exe'.status = "running"
              /\ exe'.stack = Append(Pop(exe.stack, 3), Under(exe.stack, 2))
              /\ exe'.heap = exe.heap /\ exe'.what = ""
      ]_vars

----------------------------------------------------------------------------
(* Claims about the emitted assembly text (SpecBackends) *)

\* the index in code.seq of the instruction the op item at position p of the
\* text was made from: the second loop writes one op item per instruction
IrIndex(text, p) == Cardinality({q \in 1..(p - 1) : text[q].k = "op"})

Branches(text) == {p \in 1..Len(text) : text[p].k = "op" /\ text[p].op \in {JZ_ABS, JMP_ABS}}
Places(text, L) == {q \in 1..Len(text) : text[q].k = "label" /\ text[q].lab = L}

\* the labels op_arr_get and op_arr_set take for their own jumps
Internal(text) ==
    UNION {IF text[p].k = "op" /\ text[p].op = ARR_GET THEN {text[p].lab, text[p].lab + 1}
           ELSE IF text[p].k = "op" /\ text[p].op = ARR_SET THEN {text[p].lab}
           ELSE {} : p \in 1..Len(text)}

\* C16: in the written assembly every jz/jmp names a label that is defined
\* exactly once and stands immediately before the assembly of the branch's
\* target instruction; branches to distinct targets name distinct labels,
\* and no branch label is a label internal to an array operation.
C16_BranchLabelsDefinedOnce ==
    nasm.status = "written" =>
        LET text == nasm.asmtext
            tgt(p) == E.seq[IrIndex(text, p) + 1].target
        IN /\ \A p \in Branches(text) :
                /\ Cardinality(Places(text, text[p].lab)) = 1
                /\ \A q \in Places(text, text[p].lab) :
                      /\ q < Len(text)
                      /\ text[q + 1].k = "op"
                      /\ IrIndex(text, q + 1) = tgt(p)
           /\ \A p1, p2 \in Branches(text) : tgt(p1) # tgt(p2) => text[p1].lab # text[p2].lab
           /\ \A p \in Branches(text) : text[p].lab \notin Internal(text)

----------------------------------------------------------------------------
(* SpecReach: bodies of Ifs on constant conditions with returns in their    *)
(* arms and behind them, run with --run, then compiled with --emit-nasm,    *)
(* built and run                                                            *)

MaxReachNodes == 3

ReachStmts ==
    { makeLet("x", "T_Int", num(U64(1), 0), 0),
      makeRet(num(U64(7), 0), 0),
      makeRet(num(U64(8), 0), 0) }

ReachConds == { num(Zero64, 0), num(One64, 0) }

InitReach ==
    \E b \in Bodies(MaxReachNodes, ReachStmts, ReachConds) :
        Start(<<Job(b, RunFlags, FALSE), Job(b, NasmFlags, FALSE)>>)

SpecReach == InitReach /\ [][NextBackends]_vars

\* the instructions the second loop of emit_nasm_pe reaches: up to and
\* including the first RET of code.seq (1-based positions)
UpToFirstRet(seq) ==
    LET R == {k \in 1..Len(seq) : seq[k].op = RET}
    IN IF R = {} THEN 1..Len(seq) ELSE 1..(CHOOSE k \in R : \A j \in R : k <= j)

OpItems(text) == SelectSeq(text, LAMBDA it : it.k = "op")

\* C17: the written text is one prologue, the assembly of the instructions
\* up to and including the first RET in sequence order, and one epilogue;
\* and no instruction behind that RET is ever executed by the VM running
\* the same program from offset 0.
C17_OmittedIsUnreachable ==
    /\ nasm.status = "written" =>
          LET text == nasm.asmtext
              ops == OpItems(text)
          IN /\ text[1].k = "prologue" /\ text[Len(text)].k = "epilogue"
             /\ Cardinality({p \in 1..Len(text) : text[p].k \in {"prologue", "epilogue"}}) = 2
             /\ DOMAIN ops = UpToFirstRet(E.seq)
             /\ \A k \in DOMAIN ops : ops[k].op = E.seq[k].op
    /\ (vm.status = "running" /\ vm.ip < Len(E.bytes)) =>
          \E k \in UpToFirstRet(E.seq) : off(E.seq, k - 1) = vm.ip

----------------------------------------------------------------------------
(* SpecArrOf: `let x = 3` after an optional earlier array `let a =          *)
(* arr_of(9)`, then `return x + arr_get(arr_of(v0, ..), i)`, run with --run: *)
(* the arr_of starts on a stack of depth 1                                  *)

MaxElems == 3

ElemExprs ==
    { num(U64(5), 0), var("x", 0), add(var("x", 0), num(One64, 0), 0),
      call("arr_of", <<num(U64(6), 0)>>, 0) }

ElemLists == UNION {[1..n -> ElemExprs] : n \in 0..MaxElems}

ArrOfBody(early, els, i) ==
    (IF early THEN <<makeLet("a", "T_Arr", call("arr_of", <<num(U64(9), 0)>>, 0), 0)>> ELSE <<>>)
      \o << makeLet("x", "T_Int", num(U64(3), 0), 0),
            makeRet(add(var("x", 0),
                        call("arr_get", <<call("arr_of", els, 0), num(U64(i), 0)>>, 0), 0), 0) >>

InitArrOf ==
    \E early \in BOOLEAN, els \in ElemLists, i \in 0..(MaxElems - 1) :
        Parsed(Numbered(ArrOfBody(early, els, i), FirstLine).stmts, RunFlags)

SpecArrOf == InitArrOf /\ [][NextRun]_vars

\* the arr_of of the return statement, its index, and whether the earlier
\* array was made
TheArrOf == body[Len(body)].expr.args[2].args[1]
TheIndex == ToInt(body[Len(body)].expr.args[2].args[2].val)
Earlier == IF Len(body) = 3 THEN <<<<U64(9)>>>> ELSE <<>>

\* the stack when the code of TheArrOf starts: the handle the statement
\* `let a = arr_of(9)` left behind, and x
AtArrOf == [k \in 1..Len(Earlier) |-> U64(1)] \o <<U64(3)>>

\* the values of the elements els in order, an element arr_of(6) being the
\* handle of the array it makes: next is the handle the next array gets
RECURSIVE ElemValues(_, _)
ElemValues(els, next) ==
    IF els = <<>> THEN <<>>
    ELSE LET e == Head(els)
         IN CASE e.kind = "Num" -> <<e.val>> \o ElemValues(Tail(els), next)
              [] e.kind = "Var" -> <<U64(3)>> \o ElemValues(Tail(els), next)
              [] e.kind = "Add" -> <<U64(4)>> \o ElemValues(Tail(els), next)
              [] OTHER -> <<U64(next)>> \o ElemValues(Tail(els), next + 1)

\* C18: the code of arr_of(v0, .., v(n-1)), started on a stack of depth d,
\* ends on that stack and, on top, the handle of a new array of length n
\* holding the values of v0 .. v(n-1), the arrays made before unchanged; and
\* a later arr_get on that handle with i < n yields the value of vi.
C18_ArrOfMakesTheArray ==
    LET h == Len(Earlier) + 1
        vals == ElemValues(TheArrOf.args, h + 1)
    IN /\ (pc = "vm" /\ vm.status = "running" /\ vm.ip = off(E.seq, Len(E.seq) - 4)) =>
             /\ vm.stack = AtArrOf \o <<U64(h)>>
             /\ Len(vm.arrays) >= h
             /\ vm.arrays[h] = vals
             /\ SubSeq(vm.arrays, 1, h - 1) = Earlier
       /\ (pc = "exit" /\ TheIndex < Len(vals)) =>
             /\ vm.status = "returned"
             /\ vm.ret = Add64(U64(3), vals[TheIndex + 1])

----------------------------------------------------------------------------
(* SpecNorm: one line of at most MaxWords core-dialect lexemes (keywords,   *)
(* identifiers, a number, punctuation) separated by blanks, normalized, and *)
(* the result normalized again                                              *)

MaxWords == 5

CoreLexemes == {"let", "end", "x", "declare", "implicit", "named", "=", "1"}

CoreLines == {Spaced(ws) : ws \in UNION {[1..n -> CoreLexemes] : n \in 0..MaxWords}}

InitNorm == \E l \in CoreLines : Read(<<l>>, NoFlags)

\* normalize_longform applied to its own result
Renormalize ==
    /\ pc = "lex"
    /\ done = <<>>
    /\ done' = <<[norm |-> norm]>>
    /\ src' = norm
    /\ norm' = <<>>
    /\ pc' = "normalize"
    /\ UNCHANGED <<mode, toks, body, si, T, E, vm, nasm, exe, out, exit, todo, cap>>

NextNorm == Normalize \/ Renormalize

SpecNorm == InitNorm /\ [][NextNorm]_vars

\* C19: for every core-dialect text t, normalize(normalize(t)) = normalize(t).
C19_NormalizeIdempotent ==
    (pc = "lex" /\ done # <<>>) => norm = done[1].norm

----------------------------------------------------------------------------
(* SpecCapsule: a client of the capsule library: it enters and leaves       *)
(* ranges, makes arenas, allocates capsules and subscripts the handles      *)

MaxDepth == 2
MaxArenas == 1
MaxHandles == 2
MaxCount == 2

RangeNames == {"app", "io"}
ArenaSizes == {2, 6}

InitCapsule ==
    /\ pc = "capsules"
    /\ mode = NoFlags
    /\ src = <<>> /\ norm = <<>> /\ toks = <<>> /\ body = <<>> /\ si = 0
    /\ T = TyperInit /\ E = EmitterInit /\ vm = VMIdle /\ nasm = NasmIdle /\ exe = ExeNone
    /\ out = <<>> /\ exit = -1 /\ todo = <<>> /\ done = <<>>
    /\ cap = CapIdle

Void(name) == [call |-> name, thrown |-> "", ref |-> NoPtr, h |-> 0, i |-> 0]

Enter ==
    /\ Len(cap.gRange.stack) < MaxDepth
    /\ \E r \in RangeNames :
         cap' = [cap EXCEPT !.gRange = enter(@, r), !.last = Void("enter")]
    /\ UNCHANGED <<pc, mode, src, norm, toks, body, si, T, E, vm, nasm, exe, out, exit, todo, done>>

Leave ==
    /\ cap' = [cap EXCEPT !.gRange = leave(@), !.last = Void("leave")]
    /\ UNCHANGED <<pc, mode, src, norm, toks, body, si, T, E, vm, nasm, exe, out, exit, todo, done>>

NewArena ==
    /\ Len(cap.arenas) < MaxArenas
    /\ \E c \in ArenaSizes, r \in RangeNames :
         cap' = [cap EXCEPT !.arenas = Append(@, CapsuleArena(c, r)), !.last = Void("CapsuleArena")]
    /\ UNCHANGED <<pc, mode, src, norm, toks, body, si, T, E, vm, nasm, exe, out, exit, todo, done>>

\* auto h = capsule_alloc<T>(A, n): no handle is made when alloc throws
Alloc ==
    /\ Len(cap.handles) < MaxHandles
    /\ \E a \in 1..Len(cap.arenas), n \in 0..MaxCount :
         LET r == capsule_alloc(cap.arenas[a], a, n)
         IN cap' = [cap EXCEPT !.arenas[a] = r.A,
                               !.handles = IF r.thrown = "" THEN Append(@, r.h) ELSE @,
                               !.last = [Void("capsule_alloc") EXCEPT !.thrown = r.thrown]]
    /\ UNCHANGED <<pc, mode, src, norm, toks, body, si, T, E, vm, nasm, exe, out, exit, todo, done>>

\* the handle number k, 0 being a default-constructed CapsuleHandle
HandleNo(k) == IF k = 0 THEN CapsuleHandle ELSE cap.handles[k]

\* h[i]
Subscript ==
    /\ \E k \in 0..Len(cap.handles), i \in 0..MaxCount :
         LET r == subscript(HandleNo(k), i, cap.gRange.current)
         IN cap' = [cap EXCEPT !.last = [call |-> "operator[]", thrown |-> r.thrown,
                                         ref |-> r.ref, h |-> k, i |-> i]]
    /\ UNCHANGED <<pc, mode, src, norm, toks, body, si, T, E, vm, nasm, exe, out, exit, todo, done>>

NextCapsule == Enter \/ Leave \/ NewArena \/ Alloc \/ Subscript

SpecCapsule == InitCapsule /\ [][NextCapsule]_vars

\* C20: a subscript through a handle returns a reference, to element i of
\* the handle's block, exactly when the handle's range name is the active
\* range name and i is below the handle's count; otherwise it throws and no
\* reference is returned.
C20_AccessIffRangeAndIndex ==
    cap.last.call = "operator[]" =>
        LET h == HandleNo(cap.last.h)
            i == cap.last.i
        IN IF h.range = cap.gRange.current /\ i < h.count
           THEN /\ cap.last.thrown = ""
                /\ cap.last.ref = [arena |-> h.ptr.arena, at |-> h.ptr.at + i * ElemSize]
                /\ cap.last.ref.at + ElemSize <= cap.arenas[h.ptr.arena].off
           ELSE /\ cap.last.thrown \in {"Capsule range violation", "Capsule index OOB"}
                /\ cap.last.ref = NoPtr

\* inside range io, entered from app: element 1 of a capsule of an io arena
\* was reached, the arena holding an earlier capsule too
C20_Witness ==
    /\ cap.last.call = "operator[]"
    /\ cap.last.thrown = ""
    /\ cap.last.i = 1
    /\ cap.gRange = [current |-> "io", stack |-> <<"app">>]
    /\ cap.last.ref.at > ElemSize

----------------------------------------------------------------------------
(* Claims about the mode dispatch of main (SpecArity) *)

\* C21: an invocation with none of --run, --emit, --emit-nasm ends with the
\* usage message and exit code 1 whatever the input, compilable or not;
\* exit code 2 is the end of an invocation with a mode selected only.
C21_NoModeIsUsage ==
    /\ (pc = "exit" /\ mode = NoFlags) => (exit = 1 /\ out = <<>>)
    /\ exit = 2 => mode # NoFlags

----------------------------------------------------------------------------
(* Claims about the lowering of If (SpecReach) *)

\* the number of instructions of the code of expression e
ExprLen(e) == Len(gen_expr(T, EmitterInit, e).seq)

\* the If statements of a body, those nested in arms included
RECURSIVE IfsOf(_)
IfsOf(b) ==
    IF b = <<>> THEN 0
    ELSE (IF Head(b).kind = "If"
          THEN 1 + IfsOf(Head(b).thenBody) + IfsOf(Head(b).elseBody) ELSE 0) + IfsOf(Tail(b))

\* the code of the statements b laid out from index at (0-based) of seq:
\* whether every If among them has the shape cond, JZ_ABS, then-arm,
\* JMP_ABS, else-arm with the JZ_ABS aimed behind the JMP_ABS and the
\* JMP_ABS behind the else-arm, and the index behind the code of b
RECURSIVE Shape(_, _, _)
Shape(seq, b, at) ==
    IF b = <<>> THEN [ok |-> TRUE, next |-> at]
    ELSE LET s == Head(b)
             one ==
               IF s.kind # "If" THEN [ok |-> TRUE, next |-> at + ExprLen(s.expr) + 1]
               ELSE LET jz == at + ExprLen(s.cond)
                        th == Shape(seq, s.thenBody, jz + 1)
                        jmp == th.next
                        el == Shape(seq, s.elseBody, jmp + 1)
                    IN [ok |-> /\ th.ok /\ el.ok
                               /\ jmp + 1 <= Len(seq)
                               /\ seq[jz + 1].op = JZ_ABS /\ seq[jz + 1].hasTarget
                               /\ seq[jmp + 1].op = JMP_ABS /\ seq[jmp + 1].hasTarget
                               /\ seq[jz + 1].target = jmp + 1
                               /\ seq[jmp + 1].target = el.next
                               /\ s.elseBody = <<>> => seq[jz + 1].target = seq[jmp + 1].target,
                        next |-> el.next]
             rest == Shape(seq, Tail(b), one.next)
         IN [ok |-> one.ok /\ rest.ok, next |-> rest.next]

\* C22: every If, nested ones included, is lowered to its condition, one
\* JZ_ABS, the then-arm, one JMP_ABS and the else-arm, in this order; the
\* JZ_ABS targets the index after the JMP_ABS and the JMP_ABS the index after
\* the else-arm, the two being equal when the else-arm is empty.
C22_IfShape ==
    (pc # "gen" /\ E.err = "") =>
        /\ Shape(E.seq, body, 0) = [ok |-> TRUE, next |-> Len(E.seq)]
        /\ Len(Only(E.seq, {JZ_ABS})) = IfsOf(body)
        /\ Len(Only(E.seq, {JMP_ABS})) = IfsOf(body)

\* compiled: an If whose then-arm is an If with a statement in its else-arm
C22_Witness ==
    /\ pc = "dispatch" /\ E.err = ""
    /\ Len(body) = 1 /\ body[1].kind = "If"
    /\ Len(body[1].thenBody) = 1 /\ body[1].thenBody[1].kind = "If"
    /\ body[1].thenBody[1].elseBody # <<>>
    /\ Len(Only(E.seq, {JZ_ABS})) = 2

----------------------------------------------------------------------------
(* Claims about the execution of If (Spec) *)

\* the Ifs of the statements b laid out from index at of the IR, each as
\* the 0-based indices of its first instruction, its JZ_ABS, its JMP_ABS
\* and the instruction behind its else-arm
RECURSIVE Ifs(_, _)
Ifs(b, at) ==
    IF b = <<>> THEN [segs |-> {}, next |-> at]
    ELSE LET s == Head(b)
         IN IF s.kind # "If"
            THEN LET rest == Ifs(Tail(b), at + ExprLen(s.expr) + 1)
                 IN [segs |-> rest.segs, next |-> rest.next]
            ELSE LET jz == at + ExprLen(s.cond)
                     th == Ifs(s.thenBody, jz + 1)
                     el == Ifs(s.elseBody, th.next + 1)
                     rest == Ifs(Tail(b), el.next)
                 IN [segs |-> {[first |-> at, jz |-> jz, jmp |-> th.next, end |-> el.next]}
                                \cup th.segs \cup el.segs \cup rest.segs,
                     next |-> rest.next]

\* the byte offsets of the Ifs of the compiled body
IfBytes ==
    { [first |-> off(E.seq, f.first), jz |-> off(E.seq, f.jz), then |-> off(E.seq, f.jz + 1),
       jmp |-> off(E.seq, f.jmp), else |-> off(E.seq, f.jmp + 1), end |-> off(E.seq, f.end)] :
      f \in Ifs(body, 0).segs }

\* run_all from v until ip is stop, at most fuel iterations
RECURSIVE RunUntil(_, _, _, _)
RunUntil(b, v, stop, fuel) ==
    IF v.status # "running" \/ v.ip = stop \/ fuel = 0 THEN v
    ELSE RunUntil(b, run_step(b, v), stop, fuel - 1)

\* C23: the JZ_ABS of an If enters the then-arm on a non-zero condition
\* and the else-arm on zero; from inside an arm the VM goes on inside this
\* arm, returns, or continues behind the If, never into the other arm; and
\* when the VM continues behind the If the operand stack is the one the If
\* started on.
C23_OneArmRuns ==
    [][ (pc = "vm" /\ E.err = "") =>
          \A f \in IfBytes :
             /\ (vm.ip = f.jz /\ vm'.status = "running") =>
                    IF Top(vm.stack) # Zero64 THEN vm'.ip = f.then ELSE vm'.ip = f.else
             /\ (vm.ip >= f.then /\ vm.ip < f.else /\ vm'.status = "running") =>
                    (vm'.ip = f.end \/ (vm'.ip >= f.then /\ vm'.ip < f.else))
             /\ (vm.ip >= f.else /\ vm.ip < f.end /\ vm'.status = "running") =>
                    (vm'.ip = f.end \/ (vm'.ip >= f.else /\ vm'.ip < f.end))
             /\ vm.ip = f.first =>
                    LET r == RunUntil(E.bytes, vm, f.end, Len(E.bytes))
                    IN r.status = "running" => (r.ip = f.end /\ r.stack = vm.stack) ]_vars

----------------------------------------------------------------------------
(* SpecParse: one program, and the texts made from it by leaving out one    *)
(* word, by putting one more word in front of a word, and by writing words  *)
(* behind the closing END (the spelling the normalizer leaves alone); read, *)
(* normalized, lexed, parsed and run                                        *)

ParseBase ==
    <<"module", "M", ":", "scope", "main", "range", "r", ":",
      "let", "int", "x", "=", "1",
      "if", "(", "x", ")", ":", "return", "max", "(", "x", ",", "2", ")",
      "else", ":", "return", "(", "2", ")", "END",
      "END">>

ExtraWords == {"END", "x", ":", "return", "else"}
TrailingWords == { <<"x">>, <<"END">>, <<"return", "1">>, <<"let", "x", "=", "1", "END">>, <<"0", ")">> }

Without(ws, k) == SubSeq(ws, 1, k - 1) \o SubSeq(ws, k + 1, Len(ws))
WithBefore(ws, k, w) == SubSeq(ws, 1, k - 1) \o <<w>> \o SubSeq(ws, k, Len(ws))

ParseTexts ==
    {ParseBase}
      \cup {Without(ParseBase, k) : k \in 1..Len(ParseBase)}
      \cup {WithBefore(ParseBase, k, w) : k \in 1..Len(ParseBase), w \in ExtraWords}
      \cup {ParseBase \o t : t \in TrailingWords}

\* the words ws written n to a line, one blank between them
RECURSIVE InLines(_, _)
InLines(ws, n) ==
    IF Len(ws) <= n THEN <<Spaced(ws)>>
    ELSE <<Spaced(SubSeq(ws, 1, n))>> \o InLines(SubSeq(ws, n + 1, Len(ws)), n)

WordsPerLine == 5

InitParse == \E ws \in ParseTexts : Read(InLines(ws, WordsPerLine), RunFlags)

SpecParse == InitParse /\ [][NextDriver]_vars

\* The grammar
\*   Module ::= 'module' Ident ':' Scope
\*   Scope  ::= 'scope' 'main' 'range' Ident ':' Stmt* 'end'
\*   Stmt   ::= Let | Return | If
\*   Let    ::= 'let' ('int'|'arr')? Ident '=' Expr
\*   Return ::= 'return' Expr
\*   If     ::= 'if' '(' Expr ')' ':' Stmt* ('else' ':' Stmt*)? 'end'
\*   Expr   ::= Primary ('+' Primary)*
\*   Primary ::= Number | Ident ('(' (Expr (',' Expr)*)? ')')? | '(' Expr ')'
\* as predicates on sequences of token kinds
Mid(s, a, b) == SubSeq(s, a, b)

RECURSIVE IsExpr(_)
RECURSIVE IsExprList(_)
IsPrimary(s) ==
    \/ s = <<"Number">>
    \/ s = <<"Ident">>
    \/ /\ Len(s) >= 3 /\ s[1] = "Ident" /\ s[2] = "LParen" /\ s[Len(s)] = "RParen"
       /\ (Len(s) = 3 \/ IsExprList(Mid(s, 3, Len(s) - 1)))
    \/ /\ Len(s) >= 3 /\ s[1] = "LParen" /\ s[Len(s)] = "RParen"
       /\ IsExpr(Mid(s, 2, Len(s) - 1))
IsExpr(s) ==
    \/ IsPrimary(s)
    \/ \E k \in 2..(Len(s) - 1) :
         s[k] = "Plus" /\ IsExpr(Mid(s, 1, k - 1)) /\ IsPrimary(Mid(s, k + 1, Len(s)))
IsExprList(s) ==
    \/ IsExpr(s)
    \/ \E k \in 2..(Len(s) - 1) :
         s[k] = "Comma" /\ IsExprList(Mid(s, 1, k - 1)) /\ IsExpr(Mid(s, k + 1, Len(s)))

RECURSIVE IsStmts(_)
IsLet(s) ==
    /\ Len(s) >= 4 /\ s[1] = "KwLet"
    /\ \/ s[2] = "Ident" /\ s[3] = "Equals" /\ IsExpr(Mid(s, 4, Len(s)))
       \/ /\ Len(s) >= 5 /\ s[2] \in {"KwInt", "KwArr"} /\ s[3] = "Ident" /\ s[4] = "Equals"
          /\ IsExpr(Mid(s, 5, Len(s)))
IsReturn(s) == Len(s) >= 2 /\ s[1] = "KwReturn" /\ IsExpr(Mid(s, 2, Len(s)))
IsIf(s) ==
    /\ Len(s) >= 6 /\ s[1] = "KwIf" /\ s[2] = "LParen" /\ s[Len(s)] = "KwEnd"
    /\ \E j \in 4..(Len(s) - 2) :
         /\ s[j] = "RParen" /\ s[j + 1] = "Colon" /\ IsExpr(Mid(s, 3, j - 1))
         /\ \/ IsStmts(Mid(s, j + 2, Len(s) - 1))
            \/ \E e \in (j + 2)..(Len(s) - 2) :
                 /\ s[e] = "KwElse" /\ s[e + 1] = "Colon"
                 /\ IsStmts(Mid(s, j + 2, e - 1)) /\ IsStmts(Mid(s, e + 2, Len(s) - 1))
IsStmt(s) == IsLet(s) \/ IsReturn(s) \/ IsIf(s)
IsStmts(s) ==
    \/ s = <<>>
    \/ \E k \in 1..Len(s) : IsStmt(Mid(s, 1, k)) /\ IsStmts(Mid(s, k + 1, Len(s)))

\* the tokens tk, the End token at their end included, derive from Module
IsModule(tk) ==
    LET s == [i \in 1..(Len(tk) - 1) |-> tk[i].t]
    IN /\ Len(s) >= 9 /\ tk[Len(tk)].t = "End"
       /\ Mid(s, 1, 8) = <<"KwModule", "Ident", "Colon", "KwScope", "Ident", "KwRange", "Ident", "Colon">>
       /\ tk[5].s = "main"
       /\ s[Len(s)] = "KwEnd"
       /\ IsStmts(Mid(s, 9, Len(s) - 1))

\* C24: the parser yields a Module only for a token sequence that, up to
\* the End token, derives from the Module grammar; tokens behind the
\* closing end of the scope are rejected.
C24_AcceptsOnlyModules == (pc = "gen" /\ toks # <<>>) => IsModule(toks)

----------------------------------------------------------------------------
(* Claims about the array heap of the VM (SpecArr) *)

\* the ARR_NEW instructions of the straight-line bytes b from offset at up
\* to offset ip
RECURSIVE NewsBelow(_, _, _)
NewsBelow(b, at, ip) ==
    IF at >= ip THEN 0
    ELSE (IF b[at + 1] = ARR_NEW THEN 1 ELSE 0)
            + NewsBelow(b, at + 1 + OperandBytes(b[at + 1]), ip)

\* the arrays before and after a step differ at most in element idx of
\* the array with handle id
SameBut(old, new, id, idx) ==
    /\ Len(new) = Len(old)
    /\ \A h \in 1..Len(old) :
         /\ Len(new[h]) = Len(old[h])
         /\ \A k \in 1..Len(old[h]) :
              new[h][k] # old[h][k] => (id = U64(h) /\ idx = U64(k - 1))

\* C25: the k-th ARR_NEW executed pushes the handle k and appends an array
\* of max(len, 0) zeros to the arrays, which stay as they are; ARR_GET
\* changes no array; ARR_SET changes no length and no element but the one
\* its handle and index operands address.
C25_ArraysOnlyGrow ==
    [][ /\ (NextOp = ARR_NEW /\ vm'.status = "running") =>
              LET len == Top(vm.stack)
                  k == NewsBelow(E.bytes, 0, vm.ip) + 1
              IN /\ vm'.stack = Append(Pop(vm.stack, 1), U64(k))
                 /\ Len(vm'.arrays) = k
                 /\ SubSeq(vm'.arrays, 1, k - 1) = vm.arrays
                 /\ vm'.arrays[k] = [i \in 1..(IF IsNeg(len) THEN 0 ELSE ToInt(len)) |-> Zero64]
        /\ NextOp = ARR_GET => vm'.arrays = vm.arrays
        /\ NextOp = ARR_SET => SameBut(vm.arrays, vm'.arrays, Under(vm.stack, 2), Under(vm.stack, 1))
      ]_vars

\* the third ARR_NEW has run, on a negative length, behind the two arrays
\* of the prefix
C25_Witness ==
    /\ vm.status = "running"
    /\ vm.ip > Len(ArrPrefix)
    /\ E.bytes[vm.ip] = ARR_NEW
    /\ Top(vm.stack) = U64(3)
    /\ vm.arrays = <<<<Zero64, U64(7)>>, <<U64(9)>>, <<>>>>

----------------------------------------------------------------------------
(* Claims about the operand stack along the runs of the VM (Spec) *)

\* the 0-based IR indices of the first instructions of the statements b
\* laid out from index at, those of the arms of Ifs included, and the
\* index behind the code of b
RECURSIVE StmtStarts(_, _)
StmtStarts(b, at) ==
    IF b = <<>> THEN [at |-> {}, next |-> at]
    ELSE LET s == Head(b)
         IN IF s.kind # "If"
            THEN LET rest == StmtStarts(Tail(b), at + ExprLen(s.expr) + 1)
                 IN [at |-> {at} \cup rest.at, next |-> rest.next]
            ELSE LET th == StmtStarts(s.thenBody, at + ExprLen(s.cond) + 1)
                     el == StmtStarts(s.elseBody, th.next + 1)
                     rest == StmtStarts(Tail(b), el.next)
                 IN [at |-> {at} \cup th.at \cup el.at \cup rest.at, next |-> rest.next]

\* C26: while the VM runs a compiled body, the operand stack is empty at
\* the first instruction of each statement's code, holds exactly the
\* value of the statement's expression at the STORE_LOCAL, RET or JZ_ABS that
\* consumes it, and holds at least the values the next instruction pops.
C26_StackDiscipline ==
    (pc = "vm" /\ vm.status = "running" /\ vm.ip < Len(E.bytes)) =>
        /\ vm.ip \in {off(E.seq, i) : i \in StmtStarts(body, 0).at} => vm.stack = <<>>
        /\ NextOp \in {STORE_LOCAL, RET, JZ_ABS} => Len(vm.stack) = 1
        /\ Len(vm.stack) >= Needs(NextOp)

----------------------------------------------------------------------------
(* SpecTerm: the bodies of Spec, with run_all's loop going on until it      *)
(* returns or throws                                                        *)

SpecTerm == Init /\ [][NextRun]_vars /\ WF_vars(VMStep)

\* C27: every JZ_ABS / JMP_ABS at index i of a compiled body has a patched
\* target t with i < t <= length; each step of the VM moves ip forward, so
\* no instruction runs twice; every run of the VM ends, by RET or by the
\* VM OOB error.
C27_ForwardBranchesTerminate ==
    /\ [](Compiled =>
            \A i \in 1..Len(E.seq) :
                E.seq[i].op \in {JZ_ABS, JMP_ABS} =>
                    /\ E.seq[i].hasTarget
                    /\ i - 1 < E.seq[i].target /\ E.seq[i].target <= Len(E.seq))
    /\ [][(pc = "vm" /\ vm'.status = "running") => vm'.ip > vm.ip]_vars
    /\ [](Ran => (vm.status = "returned" \/ (vm.status = "error" /\ vm.what = "VM OOB")))
    /\ (pc = "vm") ~> (pc = "exit")

\* a body with two Ifs was run: its last branch led behind the last
\* instruction, where the run ended with VM OOB
C27_Witness ==
    /\ Ran /\ vm.status = "error" /\ vm.what = "VM OOB"
    /\ Len(Only(E.seq, {JMP_ABS})) = 2
    /\ E.seq[Len(E.seq)].op = JMP_ABS

----------------------------------------------------------------------------
(* Claims about the byte form of the IR (Spec) *)

\* the instructions the VM's decoding finds in the bytes b from offset at,
\* each with the offset at which it starts and its operand bytes
RECURSIVE Decode(_, _)
Decode(b, at) ==
    IF at >= Len(b) THEN <<>>
    ELSE LET op == b[at + 1]
             n == OperandBytes(op)
         IN IF at + 1 + n > Len(b) THEN <<[at |-> at, op |-> op, operand |-> <<-1>>]>>
            ELSE <<[at |-> at, op |-> op, operand |-> SubSeq(b, at + 2, at + 1 + n)]>>
                    \o Decode(b, at + 1 + n)

\* the operand the VM reads for the IR instruction I
OperandOf(seq, I) ==
    CASE I.op = PUSH_IMM64 -> out_u64(I.imm)
      [] I.op \in {LOAD_LOCAL, STORE_LOCAL} -> out_u16(I.idx)
      [] I.op \in {JZ_ABS, JMP_ABS} -> out_u32(off(seq, I.target))
      [] OTHER -> <<>>

\* C28: decoding the finalized bytes as the VM does (8 operand bytes behind
\* PUSH_IMM64, 2 behind LOAD_LOCAL / STORE_LOCAL, 4 behind JZ_ABS / JMP_ABS,
\* none otherwise) yields the IR instructions one for one, each at the sum
\* of the sizes of those before it, with the operand of each branch equal to
\* the offset of its target index; finalizing once more gives the same bytes.
C28_BytesDecodeToIR ==
    Compiled =>
        LET d == Decode(E.bytes, 0)
        IN /\ Len(d) = Len(E.seq)
           /\ \A i \in 1..Len(E.seq) :
                /\ d[i].op = E.seq[i].op
                /\ d[i].at = off(E.seq, i - 1)
                /\ d[i].operand = OperandOf(E.seq, E.seq[i])
                /\ E.seq[i].op \in {JZ_ABS, JMP_ABS} =>
                       get_u32(E.bytes, d[i].at + 1) = off(E.seq, E.seq[i].target)
           /\ Len(E.bytes) = off(E.seq, Len(E.seq))
           /\ finalize(E) = E

\* compiled: a body with an If, a local and a constant, whose bytes hold all
\* four operand widths
C28_Witness ==
    /\ Compiled
    /\ \A op \in {PUSH_IMM64, LOAD_LOCAL, JZ_ABS, JMP_ABS, RET, ARR_NEW} :
           Only(E.seq, {op}) # <<>>
    /\ Len(E.bytes) > 20

----------------------------------------------------------------------------
(* The v0.1 driver (src/parashade.cpp): Typer::check, the byte emitter, the *)
(* VM with run_all and run_frame, and the --run block of main.  Its Op enum *)
(* gives PUSH_IMM64, ADD, STORE_LOCAL, LOAD_LOCAL and RET the values above, *)
(* its emit_u16 / emit_u64 write the bytes out_u16 / out_u64 write.  vm  *)
(* holds the VM's stack and locals, ip (the static ip of run_frame while    *)
(* frames run, the local ip of run_all afterwards), and main's frame and    *)
(* run_frame's steps.                                                       *)

MaxFrames == 8
FrameSteps == 16

\* Typer::check: the names of the Lets in the order of their first Let;
\* the index of a name is its position less one
RECURSIVE check01(_, _)
check01(b, names) ==
    IF b = <<>> THEN names
    ELSE check01(Tail(b),
                 IF Head(b).kind = "Let" /\ \A k \in 1..Len(names) : names[k] # Head(b).name
                 THEN Append(names, Head(b).name) ELSE names)

\* Emitter::gen_expr of v0.1, for expressions on declared names
RECURSIVE gen_expr01(_, _)
gen_expr01(names, e) ==
    CASE e.kind = "Num" -> <<PUSH_IMM64>> \o out_u64(e.val)
      [] e.kind = "Var" ->
            <<LOAD_LOCAL>> \o out_u16((CHOOSE k \in 1..Len(names) : names[k] = e.name) - 1)
      [] OTHER -> gen_expr01(names, e.args[1]) \o gen_expr01(names, e.args[2]) \o <<ADD>>

\* Emitter::gen_func of v0.1
RECURSIVE gen_func01(_, _)
gen_func01(names, b) ==
    IF b = <<>> THEN <<>>
    ELSE LET s == Head(b)
         IN gen_expr01(names, s.expr)
              \o (IF s.kind = "Let"
                  THEN <<STORE_LOCAL>> \o out_u16((CHOOSE k \in 1..Len(names) : names[k] = s.name) - 1)
                  ELSE <<RET>>)
              \o gen_func01(names, Tail(b))

\* VM::VM of v0.1, and main's frame = 0
VM01New(localCount) ==
    [ip |-> 0, stack |-> <<>>, locals |-> [i \in 1..localCount |-> Zero64],
     status |-> "running", ret |-> Zero64, what |-> "", frame |-> 0, steps |-> 0]

\* `b[ip++] | (b[ip++]<<8)` changes ip twice without sequencing: the build
\* reads the low byte first or the high byte first
IdxOrders == {"low_first", "high_first"}

\* the cases PUSH_IMM64, LOAD_LOCAL, STORE_LOCAL, ADD and default of the
\* switch, which run_all and run_frame share; the opcode is at v.ip
exec01(b, v, ord) ==
    LET op == b[v.ip + 1]
        ip == v.ip + 1
        st == v.stack
        idx == IF ord = "low_first" THEN b[ip + 1] + 256 * b[ip + 2]
               ELSE b[ip + 2] + 256 * b[ip + 1]
    IN
    CASE op = PUSH_IMM64 ->
            IF ip + 8 > Len(b) THEN Stop(v, "undefined", "operand read past the bytes")
            ELSE [v EXCEPT !.ip = ip + 8, !.stack = Append(st, get_u64(b, ip))]
      [] op = LOAD_LOCAL ->
            IF ip + 2 > Len(b) THEN Stop(v, "undefined", "operand read past the bytes")
            ELSE IF idx >= Len(v.locals) THEN Stop(v, "undefined", "locals[idx] out of range")
            ELSE [v EXCEPT !.ip = ip + 2, !.stack = Append(st, v.locals[idx + 1])]
      [] op = STORE_LOCAL ->
            IF ip + 2 > Len(b) THEN Stop(v, "undefined", "operand read past the bytes")
            ELSE IF st = <<>> THEN Stop(v, "undefined", "back() of an empty stack")
            ELSE IF idx >= Len(v.locals) THEN Stop(v, "undefined", "locals[idx] out of range")
            ELSE [v EXCEPT !.ip = ip + 2, !.stack = Pop(st, 1), !.locals[idx + 1] = Top(st)]
      [] op = ADD ->
            IF Len(st) < 2 THEN Stop(v, "undefined", "back() of an empty stack")
            ELSE [v EXCEPT !.ip = ip, !.stack = Append(Pop(st, 2), Add64(Under(st, 1), Top(st)))]
      [] OTHER -> Stop([v EXCEPT !.ip = ip], "error", "VM: bad opcode")

\* one iteration of the for(;;) of v0.1's VM::run_all
run_all01(b, v, ord) ==
    IF v.ip >= Len(b) THEN Stop(v, "error", "VM: OOB")
    ELSE IF b[v.ip + 1] = RET
         THEN IF v.stack = <<>> THEN Stop(v, "undefined", "back() of an empty stack")
              ELSE [v EXCEPT !.ip = @ + 1, !.status = "returned", !.ret = Top(v.stack)]
         ELSE exec01(b, v, ord)

\* one iteration of the while of VM::run_frame, entered with
\* steps<maxSteps && ip<b.size()
run_frame01(b, v, ord) ==
    IF b[v.ip + 1] = RET
    THEN IF v.stack = <<>> THEN Stop(v, "undefined", "back() of an empty stack")
         ELSE [v EXCEPT !.ip = 0, !.stack = Pop(v.stack, 1), !.status = "returned",
                        !.ret = Top(v.stack)]
    ELSE LET r == exec01(b, v, ord)
         IN IF r.status = "running" THEN [r EXCEPT !.steps = @ + 1] ELSE r

\* what main does with the VM v after a step: prints the result and
\* returns 0, or catches the exception and returns 2
Finish01(v) ==
    CASE v.status = "returned" ->
            pc' = "exit" /\ exit' = 0 /\ out' = <<[kind |-> "ret", val |-> v.ret]>>
      [] v.status = "error" -> pc' = "exit" /\ exit' = 2 /\ out' = out
      [] v.status = "crashed" -> pc' = "crash" /\ UNCHANGED <<exit, out>>
      [] OTHER -> UNCHANGED <<pc, exit, out>>

\* the state after what undefined behaviour leads to
Resolve01(r, o, g) ==
    IF r.status # "undefined" THEN r
    ELSE [r EXCEPT !.status = o, !.ret = IF o = "returned" THEN g ELSE @]

\* for(frame<8){ done = vm.run_frame(16, result); if(done){ print; return 0; } }:
\* one iteration of run_frame's loop, or its return false followed by the
\* next frame or, after the last frame, by the call of run_all
FrameStep ==
    /\ pc = "frame"
    /\ vm.status = "running"
    /\ IF vm.steps < FrameSteps /\ vm.ip < Len(E.bytes)
       THEN \E ord \in IdxOrders, o \in UBOutcomes, g \in Garbage :
               LET v == Resolve01(run_frame01(E.bytes, vm, ord), o, g)
               IN vm' = v /\ Finish01(v)
       ELSE IF vm.frame + 1 < MaxFrames
       THEN vm' = [vm EXCEPT !.frame = @ + 1, !.steps = 0] /\ UNCHANGED <<pc, exit, out>>
       ELSE /\ vm' = [vm EXCEPT !.frame = @ + 1, !.steps = 0, !.ip = 0]
            /\ pc' = "fallback"
            /\ UNCHANGED <<exit, out>>
    /\ UNCHANGED <<mode, src, norm, toks, body, si, T, E, nasm, exe, todo, done, cap>>

\* cout << vm.run_all() after the frames: one iteration of run_all on the
\* same VM
FallbackStep ==
    /\ pc = "fallback"
    /\ vm.status = "running"
    /\ \E ord \in IdxOrders, o \in UBOutcomes, g \in Garbage :
         LET v == Resolve01(run_all01(E.bytes, vm, ord), o, g)
         IN vm' = v /\ Finish01(v)
    /\ UNCHANGED <<mode, src, norm, toks, body, si, T, E, nasm, exe, todo, done, cap>>

NextFrame == FrameStep \/ FallbackStep

(* SpecFrame: programs of one local x, with and without a read of x before  *)
(* its first store and with and without a return, of lengths around the     *)
(* MaxFrames * FrameSteps instructions the frames can run                   *)

MaxPad == 64

\* x + 0 + ... + 0 with n zeros, as parseExpr builds it
RECURSIVE Padded(_)
Padded(n) == IF n = 0 THEN var("x", 0) ELSE add(Padded(n - 1), num(Zero64, 0), 0)

FrameFirsts ==
    { <<makeLet("x", "T_Implicit", num(One64, 0), 0)>>,
      <<makeLet("x", "T_Implicit", add(var("x", 0), num(One64, 0), 0), 0)>> }

FramePads == {0, 6, 30} \cup ((MaxPad - 4)..MaxPad)

FrameBodies ==
    { f \o <<makeRet(Padded(n), 0)>> : f \in FrameFirsts, n \in FramePads }
      \cup { f \o <<makeLet("x", "T_Implicit", Padded(n), 0)>> : f \in FrameFirsts, n \in FramePads }

InitFrame ==
    \E b \in FrameBodies :
        /\ pc = "frame"
        /\ mode = RunFlags
        /\ src = <<>>
        /\ norm = <<>>
        /\ toks = <<>>
        /\ body = b
        /\ si = 0
        /\ T = TyperInit
        /\ E = [EmitterInit EXCEPT !.bytes = gen_func01(check01(b, <<>>), b)]
        /\ vm = VM01New(Len(check01(b, <<>>)))
        /\ nasm = NasmIdle
        /\ exe = ExeNone
        /\ out = <<>>
        /\ exit = -1
        /\ todo = <<>>
        /\ done = <<>>
        /\ cap = CapIdle

SpecFrame == InitFrame /\ [][NextFrame]_vars

\* run_all on the VM v to its end
RECURSIVE RunAll01(_, _, _)
RunAll01(b, v, ord) ==
    IF v.status # "running" THEN v ELSE RunAll01(b, run_all01(b, v, ord), ord)

============================================================================
